---- MODULE Spec2Model ----
(***************************************************************************)
(* Cutly file-storage bot: the forced-join membership gate, the            *)
(* cache-through user and channel collections, the admin predicate and the *)
(* handler dispatch of src/main.py.                                        *)
(*                                                                         *)
(* An optional Python value is a sequence of length 0 (None) or 1.         *)
(***************************************************************************)
EXTENDS Integers, Sequences, FiniteSets, TLC

\* ------------------------------------------------------------------ bounds
NumChannels == 2
NumUsers == 2
NumProcs == 2
MaxEvents == 3
MaxAdminEvents == 4
MaxFailureEvents == 3
MaxUploads == 3
MaxSize == 2
MaxCodes == 2
MaxRecipients == 3

ChannelIds == 1..NumChannels
Users == 1..NumUsers
Procs == 1..NumProcs

\* ADMIN_MASTER of src/main.py, as an id of the model's user range.
ADMIN_MASTER == 1

None == << >>
Some(x) == << x >>
IsNone(o) == Len(o) = 0
Val(o) == o[1]

Range(s) == { s[i] : i \in 1..Len(s) }
InjectiveSeqs(S) ==
    UNION { { s \in [1..n -> S] : \A i, j \in 1..n : i # j => s[i] # s[j] }
            : n \in 0..Cardinality(S) }

VARIABLES
    CHANNEL_JOIN_LIST,  \* main.py global: optional sequence of channel entries, in dict order
    gateRun,            \* the last run of enforce_channel_membership: inputs and outputs
    dbUser,             \* the user table: userid -> optional row
    redisUsers,         \* Redis key cutly:users:all: optional set of user ids
    redisAdmins,        \* Redis key cutly:users:admins: optional set of user ids
    redisDetail,        \* Redis keys cutly:user:<id>: userid -> optional row
    pc,                 \* per coroutine: the suspension point it is at
    loc,                \* per coroutine: its local variables
    ret,                \* the latest return of a service call
    demoted,            \* users whose latest completed admin change removed staff
    created,            \* users that create_user_from_db has inserted
    dbChannels,         \* the channel table: the set of stored channel ids
    redisChannels,      \* Redis key cutly:channels:all: optional channel map
    lookupRaised,       \* some title lookup ended in an error fetch_channel_info lets through
    CONVERSATION_STATE, \* main.py global: userid -> state ("None" for no state)
    CONVERSATION_OBJECT,\* main.py global: userid -> optional file in context
    sessions,           \* UploadSessionManager._sessions: userid -> "none", "empty" or "files"
    lastEvent,          \* the latest dispatched event: whether its sender passed the admin
                        \* predicate, how many handlers ran and performed an effect, the
                        \* admin actions carried out
    delivered,          \* the number of events dispatched so far
    uploads,            \* UploadSessionManager._sessions with the items: userid -> optional
                        \* session [files, total_size]
    added,              \* per user, the items added since the latest start_session and
                        \* the number of items that start_session discarded
    dbFiles,            \* the file table: the rows in insertion order
    storage,            \* the ids of the messages in the storage channel
    forwarded,          \* the number of messages forwarded to the storage channel so far
    cast,               \* the run of broadcast_to_users under way, or its result
    cache,              \* the RedisCache instance: its enabled flag and whether it holds a client
    LIST_VIDEO,         \* main.py global: the records of the previews waiting for cleanup
    pending,            \* the records the cleanup runs under way have copied and not yet
                        \* passed to delete_messages
    previews,           \* the previews recorded so far, in the order of their sends
    deleteCalls         \* per record, the number of delete_messages calls made for it

uploadVars == << uploads, added, dbFiles, storage, forwarded >>
castVars == << cast >>
cacheVars == << cache >>
cleanupVars == << LIST_VIDEO, pending, previews, deleteCalls >>
convVars == << CONVERSATION_STATE, CONVERSATION_OBJECT, sessions, lastEvent, delivered,
               uploadVars, castVars, cacheVars, cleanupVars >>
gateVars == << gateRun >>
chanVars == << CHANNEL_JOIN_LIST, dbChannels, redisChannels, lookupRaised >>
userVars == << dbUser, redisUsers, redisAdmins, redisDetail, demoted, created >>
procVars == << pc, loc, ret >>
vars == << CHANNEL_JOIN_LIST, gateRun, dbUser, redisUsers, redisAdmins, redisDetail,
           pc, loc, ret, demoted, created, dbChannels, redisChannels, lookupRaised,
           CONVERSATION_STATE, CONVERSATION_OBJECT, sessions, lastEvent, delivered,
           uploads, added, dbFiles, storage, forwarded, cast, cache,
           LIST_VIDEO, pending, previews, deleteCalls >>

\* ------------------------------------------------- channel map entries
\* One entry of the channel map: channel_id -> {"title", "link"}.
ChannelLink(c) == << "link", c >>
TitleKinds == { "entity_title", "raw_id" }
ChannelEntry(c, kind) == [ id |-> c, title |-> << kind, c >>, link |-> ChannelLink(c) ]
EntryData(e) == [ title |-> e.title, link |-> e.link ]

ChannelMaps ==
    UNION { { [ i \in 1..Len(ids) |-> ChannelEntry(ids[i], k[i]) ]
              : k \in [1..Len(ids) -> TitleKinds] }
            : ids \in InjectiveSeqs(ChannelIds) }

\* ------------------------------------------- parts a specification leaves alone
NoLoc == [ u |-> 0, staff |-> FALSE, ids |-> {}, row |-> None, after |-> FALSE,
           chan |-> 0, chans |-> << >>, payload |-> << >> ]
NoRet == [ call |-> "none" ]

\* The bound of the cleanup specification: the previews recorded in a behaviour.
MaxPreviews == 3

\* {"chat_id": message.chat_id, "message_id": message.id}
PreviewRecord(chat_id, message_id) == [ chat_id |-> chat_id, message_id |-> message_id ]
PreviewRecords == { PreviewRecord(u, m) : u \in Users, m \in 1..MaxPreviews }

\* LIST_VIDEO: List[Dict[str, int]] = [], with no cleanup run under way
CleanupQuiet ==
    /\ LIST_VIDEO = << >>
    /\ pending = << >>
    /\ previews = << >>
    /\ deleteCalls = [ r \in PreviewRecords |-> 0 ]

UsersQuiet ==
    /\ dbUser = [ u \in Users |-> None ]
    /\ redisUsers = None
    /\ redisAdmins = None
    /\ redisDetail = [ u \in Users |-> None ]
    /\ demoted = {}
    /\ created = {}

NoEvent == [ seen |-> FALSE ]
NoCast == [ phase |-> "none" ]

\* RedisCache after a connect() that succeeded.
CacheOn == [ enabled |-> TRUE, redis |-> TRUE ]

UploadsQuiet ==
    /\ uploads = [ u \in Users |-> None ]
    /\ added = [ u \in Users |-> [ items |-> << >>, dropped |-> 0 ] ]
    /\ dbFiles = << >>
    /\ storage = {}
    /\ forwarded = 0

ConvQuiet ==
    /\ CONVERSATION_STATE = [ u \in Users |-> "None" ]
    /\ CONVERSATION_OBJECT = [ u \in Users |-> None ]
    /\ sessions = [ u \in Users |-> "none" ]
    /\ lastEvent = NoEvent
    /\ delivered = 0
    /\ UploadsQuiet
    /\ cast = NoCast
    /\ cache = CacheOn
    /\ CleanupQuiet

ProcsQuiet ==
    /\ pc = [ p \in Procs |-> "idle" ]
    /\ loc = [ p \in Procs |-> NoLoc ]
    /\ ret = NoRet

\* ------------------------------------------------------ membership gate
\* What client.get_permissions(entity, sender) ends in for one channel.
PermissionOutcomes ==
    { "permissions", "UserNotParticipantError", "ChannelPrivateError", "TimeoutError" }

\* A fail-open variant of check_membership, which C2 must tell apart from the
\* code's: only not-a-participant counts as unmet.
check_membership_open(entry, outcome) ==
    IF outcome \in { "permissions", "TimeoutError", "ChannelPrivateError" }
    THEN None
    ELSE Some(EntryData(entry))

\* check_membership: None when the lookup returned, the entry's data when it
\* raised UserNotParticipantError and, by the second except clause, when it
\* raised anything else.
check_membership(entry, outcome) ==
    IF outcome = "permissions" THEN None
    ELSE IF outcome = "UserNotParticipantError" THEN Some(EntryData(entry))
    ELSE Some(EntryData(entry))

RECURSIVE FilterMissing(_)
FilterMissing(results) ==
    IF results = << >> THEN << >>
    ELSE IF IsNone(Head(results)) THEN FilterMissing(Tail(results))
    ELSE << Val(Head(results)) >> \o FilterMissing(Tail(results))

\* A variant of the missing list that keeps only its first entry, which C1
\* must tell apart from the code's.
missing_first_only(results) ==
    LET m == FilterMissing(results) IN IF m = << >> THEN m ELSE << m[1] >>

\* missing = [data for data in results if data]: the missing list keeps
\* gather's order, which is the order of channels.items().
missing_of(results) == FilterMissing(results)

\* enforce_channel_membership over the join list `channels` with the lookup
\* outcome of each channel: returns pass, and the join buttons it sent when
\* it did not pass (the trailing acknowledgement button is not a channel).
enforce_channel_membership(channels, outcome) ==
    IF channels = << >>
    THEN [ pass |-> TRUE, sent |-> FALSE, buttons |-> << >> ]
    ELSE LET results == [ i \in 1..Len(channels) |-> check_membership(channels[i], outcome[i]) ]
             missing == missing_of(results)
         IN  IF missing = << >>
             THEN [ pass |-> TRUE, sent |-> FALSE, buttons |-> << >> ]
             ELSE [ pass |-> FALSE, sent |-> TRUE, buttons |-> missing ]

NoGateRun == [ ran |-> FALSE ]

\* The join list of a store whose channels are those of the list.
InitGate ==
    /\ ConvQuiet
    /\ CHANNEL_JOIN_LIST \in { Some(m) : m \in ChannelMaps }
    /\ dbChannels = { e.id : e \in Range(Val(CHANNEL_JOIN_LIST)) }
    /\ redisChannels = CHANNEL_JOIN_LIST
    /\ lookupRaised = FALSE
    /\ gateRun = NoGateRun
    /\ UsersQuiet
    /\ ProcsQuiet

\* One call of enforce_channel_membership for `sender`; the join list was
\* hydrated at startup, so ensure_channel_join_list returns it as it is.
\* A run reads nothing an earlier run wrote, so one run per behaviour
\* reaches every outcome.
GateCheck(sender, outcome) ==
    /\ ~IsNone(CHANNEL_JOIN_LIST)
    /\ ~gateRun.ran
    /\ LET channels == Val(CHANNEL_JOIN_LIST)
           r == enforce_channel_membership(channels, outcome)
       IN  gateRun' = [ ran |-> TRUE, sender |-> sender, channels |-> channels,
                        outcome |-> outcome, pass |-> r.pass, sent |-> r.sent,
                        buttons |-> r.buttons ]
    /\ UNCHANGED << convVars, chanVars, userVars, procVars >>

NextGate ==
    \E sender \in Users :
        \E outcome \in [1..Len(Val(CHANNEL_JOIN_LIST)) -> PermissionOutcomes] :
            GateCheck(sender, outcome)

SpecGate == InitGate /\ [][NextGate]_vars

\* ----------------------------------------------------------- C1, C2
RECURSIVE ExpectedUnmet(_, _, _)
ExpectedUnmet(channels, outcome, i) ==
    IF i > Len(channels) THEN << >>
    ELSE IF outcome[i] = "permissions" THEN ExpectedUnmet(channels, outcome, i + 1)
    ELSE << EntryData(channels[i]) >> \o ExpectedUnmet(channels, outcome, i + 1)

\* C1: the gate passes iff every per-channel lookup reported membership, and
\* when it does not pass the prompt lists exactly the channels whose lookup
\* did not report membership, in channel-map order.
C1_GatePassIffAllMembers ==
    gateRun.ran =>
        /\ gateRun.pass <=>
             (\A i \in 1..Len(gateRun.channels) : gateRun.outcome[i] = "permissions")
        /\ ~gateRun.pass =>
             /\ gateRun.sent
             /\ gateRun.buttons = ExpectedUnmet(gateRun.channels, gateRun.outcome, 1)
        /\ gateRun.pass => ~gateRun.sent

\* A run over two or more channels of which some but not all are unmet.
C1_Witness ==
    /\ gateRun.ran
    /\ Len(gateRun.channels) >= 2
    /\ ~gateRun.pass
    /\ Len(gateRun.buttons) >= 1
    /\ Len(gateRun.buttons) < Len(gateRun.channels)
    /\ gateRun.outcome[1] = "permissions"

\* C2: fail-closed: the gate never passes in a run where a per-channel lookup
\* raised, whatever the error was.
C2_FailClosed ==
    gateRun.ran =>
        ((\E i \in 1..Len(gateRun.channels) : gateRun.outcome[i] # "permissions")
            => ~gateRun.pass)

\* A run where the only failing lookups raised something other than
\* not-a-participant.
C2_Witness ==
    /\ gateRun.ran
    /\ ~gateRun.pass
    /\ \E i \in 1..Len(gateRun.channels) :
           gateRun.outcome[i] \in { "ChannelPrivateError", "TimeoutError" }
    /\ \A i \in 1..Len(gateRun.channels) :
           gateRun.outcome[i] # "UserNotParticipantError"

\* ------------------------------------------------------- user services
\* A row of the user table, as far as the admin flags go.
UserRow(su, st) == [ is_superuser |-> su, is_staff |-> st ]
UserRows == { UserRow(su, st) : su, st \in BOOLEAN }

DbUserIds == { u \in Users : ~IsNone(dbUser[u]) }
IsAdminRow(r) == r.is_superuser \/ r.is_staff
\* User.filter(Q(is_superuser=True) | Q(is_staff=True))
DbAdminIds == { u \in DbUserIds : IsAdminRow(Val(dbUser[u])) }

AllIdle == \A p \in Procs : pc[p] = "idle"

Return(p, r) ==
    /\ pc' = [pc EXCEPT ![p] = "idle"]
    /\ loc' = [loc EXCEPT ![p] = NoLoc]
    /\ ret' = r

Goto(p, label, l) ==
    /\ pc' = [pc EXCEPT ![p] = label]
    /\ loc' = [loc EXCEPT ![p] = l]
    /\ UNCHANGED ret

Begin(p, label, l) ==
    /\ pc[p] = "idle"
    /\ pc' = [pc EXCEPT ![p] = label]
    /\ loc' = [loc EXCEPT ![p] = l]
    /\ ret' = NoRet

\* userid_list ------------------------------------------------------------
UL_Start(p) ==
    /\ Begin(p, "ul_get", NoLoc)
    /\ UNCHANGED << convVars, gateVars, chanVars, userVars >>

\* cached_ids = await cache.get_user_list(); a hit returns it verbatim
UL_Get(p) ==
    /\ pc[p] = "ul_get"
    /\ IF ~IsNone(redisUsers)
       THEN Return(p, [ call |-> "userid_list", ids |-> Val(redisUsers), hit |-> TRUE ])
       ELSE Goto(p, "ul_query", loc[p])
    /\ UNCHANGED << convVars, gateVars, chanVars, userVars >>

\* result = await User.all().values_list("userid", flat=True)
UL_Query(p) ==
    /\ pc[p] = "ul_query"
    /\ Goto(p, "ul_set", [loc[p] EXCEPT !.ids = DbUserIds])
    /\ UNCHANGED << convVars, gateVars, chanVars, userVars >>

\* await cache.set_user_list(user_ids); return user_ids
UL_Set(p) ==
    /\ pc[p] = "ul_set"
    /\ redisUsers' = Some(loc[p].ids)
    /\ Return(p, [ call |-> "userid_list", ids |-> loc[p].ids, hit |-> FALSE ])
    /\ UNCHANGED << convVars, gateVars, chanVars, dbUser, redisAdmins, redisDetail, demoted, created >>

\* create_user_from_db ----------------------------------------------------
CU_Start(p, u) ==
    /\ Begin(p, "cu_get_or_create", [NoLoc EXCEPT !.u = u])
    /\ UNCHANGED << convVars, gateVars, chanVars, userVars >>

\* user, created = await User.get_or_create(userid=userid, defaults=defaults)
CU_GetOrCreate(p) ==
    /\ pc[p] = "cu_get_or_create"
    /\ LET u == loc[p].u
           row == IF IsNone(dbUser[u]) THEN UserRow(FALSE, FALSE) ELSE Val(dbUser[u])
           isNew == IsNone(dbUser[u])
       IN  /\ dbUser' = [dbUser EXCEPT ![u] = Some(row)]
           /\ created' = IF isNew THEN created \cup { u } ELSE created
           /\ IF isNew
              THEN Goto(p, "cu_add_get", [loc[p] EXCEPT !.row = Some(row)])
              ELSE Return(p, [ call |-> "create_user_from_db", u |-> u, created |-> FALSE ])
    /\ UNCHANGED << convVars, gateVars, chanVars, redisUsers, redisAdmins, redisDetail, demoted >>

\* A variant of add_user_to_list that appends nothing, which C3 must tell
\* apart from the code's.
appended_not(users, user_id) == users

\* The list add_user_to_list writes back: the cached list with the id appended.
appended(users, user_id) == users \cup { user_id }

\* add_user_to_list: users = await self.get_user_list()
CU_AddGet(p) ==
    /\ pc[p] = "cu_add_get"
    /\ IF ~IsNone(redisUsers) /\ loc[p].u \notin Val(redisUsers)
       THEN Goto(p, "cu_add_set", [loc[p] EXCEPT !.ids = appended(Val(redisUsers), loc[p].u)])
       ELSE Goto(p, "cu_detail", loc[p])
    /\ UNCHANGED << convVars, gateVars, chanVars, userVars >>

\* add_user_to_list: return await self.set_user_list(users)
CU_AddSet(p) ==
    /\ pc[p] = "cu_add_set"
    /\ redisUsers' = Some(loc[p].ids)
    /\ Goto(p, "cu_detail", loc[p])
    /\ UNCHANGED << convVars, gateVars, chanVars, dbUser, redisAdmins, redisDetail, demoted, created >>

\* await cache.set_user_detail(userid, user_data); return user
CU_Detail(p) ==
    /\ pc[p] = "cu_detail"
    /\ redisDetail' = [redisDetail EXCEPT ![loc[p].u] = loc[p].row]
    /\ Return(p, [ call |-> "create_user_from_db", u |-> loc[p].u, created |-> TRUE ])
    /\ UNCHANGED << convVars, gateVars, chanVars, dbUser, redisUsers, redisAdmins, demoted, created >>

\* change_admin_from_db(userid, is_staff=staff) ---------------------------
CA_Start(p, u, staff) ==
    /\ Begin(p, "ca_read", [NoLoc EXCEPT !.u = u, !.staff = staff])
    /\ demoted' = demoted \ { u }
    /\ UNCHANGED << convVars, gateVars, chanVars, dbUser, redisUsers, redisAdmins, redisDetail, created >>

\* user = await User.filter(userid=userid).first(); a missing user returns
\* False; otherwise user.is_staff = is_staff on the object read
CA_Read(p) ==
    /\ pc[p] = "ca_read"
    /\ LET u == loc[p].u IN
       IF IsNone(dbUser[u])
       THEN Return(p, [ call |-> "change_admin_from_db", u |-> u, updated |-> FALSE ])
       ELSE Goto(p, "ca_save",
                 [loc[p] EXCEPT !.row = Some([Val(dbUser[u]) EXCEPT !.is_staff = loc[p].staff])])
    /\ UNCHANGED << convVars, gateVars, chanVars, userVars >>

\* await user.save()
CA_Save(p) ==
    /\ pc[p] = "ca_save"
    /\ dbUser' = [dbUser EXCEPT ![loc[p].u] = loc[p].row]
    /\ Goto(p, "ca_detail", loc[p])
    /\ UNCHANGED << convVars, gateVars, chanVars, redisUsers, redisAdmins, redisDetail, demoted, created >>

\* await cache.set_user_detail(userid, user_data)
CA_Detail(p) ==
    /\ pc[p] = "ca_detail"
    /\ redisDetail' = [redisDetail EXCEPT ![loc[p].u] = loc[p].row]
    /\ Goto(p, "ca_query", loc[p])
    /\ UNCHANGED << convVars, gateVars, chanVars, dbUser, redisUsers, redisAdmins, demoted, created >>

\* The admin ids change_admin_from_db writes to the cache after the change:
\* those of the query it runs after the save, whatever the cache held.
admin_ids_rebuilt(current, cached) == current

\* admin_users = await User.filter(Q(is_superuser=True) | Q(is_staff=True)).all()
CA_Query(p) ==
    /\ pc[p] = "ca_query"
    /\ Goto(p, "ca_set", [loc[p] EXCEPT !.ids = admin_ids_rebuilt(DbAdminIds, redisAdmins)])
    /\ UNCHANGED << convVars, gateVars, chanVars, userVars >>

\* await cache.set_admin_list(admin_ids); return True
CA_Set(p) ==
    /\ pc[p] = "ca_set"
    /\ redisAdmins' = Some(loc[p].ids)
    /\ demoted' = IF loc[p].staff THEN demoted ELSE demoted \cup { loc[p].u }
    /\ Return(p, [ call |-> "change_admin_from_db", u |-> loc[p].u, updated |-> TRUE ])
    /\ UNCHANGED << convVars, gateVars, chanVars, dbUser, redisUsers, redisDetail, created >>

\* read_users(is_admin=True) ----------------------------------------------
RU_Start(p) ==
    /\ Begin(p, "ru_get", NoLoc)
    /\ UNCHANGED << convVars, gateVars, chanVars, userVars >>

\* cached_admin_ids = await cache.get_admin_list()
RU_Get(p) ==
    /\ pc[p] = "ru_get"
    /\ IF ~IsNone(redisAdmins)
       THEN Goto(p, "ru_hit_query", [loc[p] EXCEPT !.ids = Val(redisAdmins)])
       ELSE Goto(p, "ru_query", loc[p])
    /\ UNCHANGED << convVars, gateVars, chanVars, userVars >>

\* users = await User.filter(userid__in=cached_admin_ids).order_by("id")
RU_HitQuery(p) ==
    /\ pc[p] = "ru_hit_query"
    /\ Return(p, [ call |-> "read_users", ids |-> DbUserIds \cap loc[p].ids, hit |-> TRUE ])
    /\ UNCHANGED << convVars, gateVars, chanVars, userVars >>

\* users = await queryset.filter(...).order_by("id")
RU_Query(p) ==
    /\ pc[p] = "ru_query"
    /\ Goto(p, "ru_set", [loc[p] EXCEPT !.ids = DbAdminIds])
    /\ UNCHANGED << convVars, gateVars, chanVars, userVars >>

\* await cache.set_admin_list(admin_ids); return users
RU_Set(p) ==
    /\ pc[p] = "ru_set"
    /\ redisAdmins' = Some(loc[p].ids)
    /\ Return(p, [ call |-> "read_users", ids |-> loc[p].ids, hit |-> FALSE ])
    /\ UNCHANGED << convVars, gateVars, chanVars, dbUser, redisUsers, redisDetail, demoted, created >>

\* The caches as the startup warm-up of main() leaves them over a store `db`
\* (both lists written in full), or cold; a user's detail key exists only
\* when a write for that user put it there.
InitUsers ==
    /\ dbUser \in [ Users -> { None } \cup { Some(r) : r \in UserRows } ]
    /\ redisUsers \in { None, Some(DbUserIds) }
    /\ redisAdmins \in { None, Some(DbAdminIds) }
    /\ redisDetail \in { d \in [ Users -> { None } \cup { Some(r) : r \in UserRows } ] :
                           \A u \in Users : d[u] \in { None, dbUser[u] } }
    /\ demoted = {}
    /\ created = {}

ChannelsQuiet ==
    /\ CHANNEL_JOIN_LIST = Some(<< >>)
    /\ dbChannels = {}
    /\ redisChannels = Some(<< >>)
    /\ lookupRaised = FALSE

InitUserServices ==
    /\ ConvQuiet
    /\ InitUsers
    /\ ProcsQuiet
    /\ ChannelsQuiet
    /\ gateRun = NoGateRun

UserListSteps(p) ==
    \/ UL_Get(p) \/ UL_Query(p) \/ UL_Set(p)
    \/ CU_GetOrCreate(p) \/ CU_AddGet(p) \/ CU_AddSet(p) \/ CU_Detail(p)

AdminListSteps(p) ==
    \/ CA_Read(p) \/ CA_Save(p) \/ CA_Detail(p) \/ CA_Query(p) \/ CA_Set(p)
    \/ RU_Get(p) \/ RU_HitQuery(p) \/ RU_Query(p) \/ RU_Set(p)

\* Calls that do not interleave: a call starts only when none is in progress.
NextUsersSeq ==
    \E p \in Procs :
        \/ AllIdle /\ UL_Start(p)
        \/ AllIdle /\ RU_Start(p)
        \/ \E u \in Users : AllIdle /\ CU_Start(p, u)
        \/ \E u \in Users, staff \in BOOLEAN : AllIdle /\ CA_Start(p, u, staff)
        \/ UserListSteps(p)
        \/ AdminListSteps(p)

SpecUsersSeq == InitUserServices /\ [][NextUsersSeq]_vars

\* create_user_from_db and userid_list interleaving at their suspension points.
NextUsersConc ==
    \E p \in Procs :
        \/ UL_Start(p)
        \/ \E u \in Users : CU_Start(p, u)
        \/ UserListSteps(p)

SpecUsersConc == InitUserServices /\ [][NextUsersConc]_vars

\* ------------------------------------------------------------ C3, C4
\* C3: with calls not interleaved, a completed userid_list returns exactly the
\* ids of the user table and a completed read_users(is_admin=True) exactly the
\* ids of its admins, on a cache hit as on a rebuilt miss.
C3_CachedListsEqualStore ==
    /\ ret.call = "userid_list" => ret.ids = DbUserIds
    /\ ret.call = "read_users" => ret.ids = DbAdminIds

\* A hit on the admin list after a user lost staff, while the cached user
\* list holds a user that was appended to it on creation.
C3_Witness ==
    /\ ret.call = "read_users"
    /\ ret.hit
    /\ demoted # {}
    /\ created # {}
    /\ ~IsNone(redisUsers)
    /\ created \subseteq Val(redisUsers)

\* C4: once interleaved create_user_from_db and userid_list calls have all
\* returned, the cached user-id list, if present, holds every stored user id.
C4_CachedUserListCoversStore ==
    (AllIdle /\ ~IsNone(redisUsers)) => DbUserIds \subseteq Val(redisUsers)

\* admin_filter / read_user_from_db ---------------------------------------
\* The predicate's verdict on the user object read_user_from_db returned.
admin_verdict(user) == ~IsNone(user) /\ (Val(user).is_superuser \/ Val(user).is_staff)

AdminReturn(p, user) ==
    Return(p, [ call |-> "admin_filter", u |-> loc[p].u, pass |-> admin_verdict(user),
                after |-> loc[p].after ])

\* _predicate of admin_filter: the master passes at once, anyone else is
\* looked up; `after` notes that the evaluation began after the user's staff
\* flag had been removed.
AF_Start(p, u) ==
    /\ pc[p] = "idle"
    /\ IF u = ADMIN_MASTER
       THEN /\ ret' = [ call |-> "admin_filter", u |-> u, pass |-> TRUE, after |-> FALSE ]
            /\ UNCHANGED << pc, loc >>
       ELSE Begin(p, "rd_get", [NoLoc EXCEPT !.u = u, !.after = (u \in demoted)])
    /\ UNCHANGED << convVars, gateVars, chanVars, userVars >>

\* cached_data = await cache.get_user_detail(user_id)
RD_Get(p) ==
    /\ pc[p] = "rd_get"
    /\ IF ~IsNone(redisDetail[loc[p].u])
       THEN AdminReturn(p, redisDetail[loc[p].u])
       ELSE Goto(p, "rd_query", loc[p])
    /\ UNCHANGED << convVars, gateVars, chanVars, userVars >>

\* user = await User.filter(userid=user_id).first()
RD_Query(p) ==
    /\ pc[p] = "rd_query"
    /\ IF IsNone(dbUser[loc[p].u])
       THEN AdminReturn(p, None)
       ELSE Goto(p, "rd_set", [loc[p] EXCEPT !.row = dbUser[loc[p].u]])
    /\ UNCHANGED << convVars, gateVars, chanVars, userVars >>

\* await cache.set_user_detail(user_id, user_data); return user
RD_Set(p) ==
    /\ pc[p] = "rd_set"
    /\ redisDetail' = [redisDetail EXCEPT ![loc[p].u] = loc[p].row]
    /\ AdminReturn(p, loc[p].row)
    /\ UNCHANGED << convVars, gateVars, chanVars, dbUser, redisUsers, redisAdmins, demoted, created >>

AdminFilterSteps(p) == RD_Get(p) \/ RD_Query(p) \/ RD_Set(p)

ChangeAdminSteps(p) == CA_Read(p) \/ CA_Save(p) \/ CA_Detail(p) \/ CA_Query(p) \/ CA_Set(p)

\* Staff removals and admin-predicate evaluations, interleaving at their
\* suspension points.
NextAdminRace ==
    \E p \in Procs :
        \/ \E u \in Users : AF_Start(p, u)
        \/ \E u \in Users : CA_Start(p, u, FALSE)
        \/ AdminFilterSteps(p)
        \/ ChangeAdminSteps(p)

SpecAdminRace == InitUserServices /\ [][NextAdminRace]_vars

\* ----------------------------------------------------------------- C8
\* C8: an admin-predicate evaluation for a user who is neither the master
\* admin nor a superuser, begun after change_admin_from_db(u, is_staff=False)
\* returned True, fails.
C8_DemotedUserFailsPredicate ==
    (/\ ret.call = "admin_filter"
     /\ ret.after
     /\ ret.u # ADMIN_MASTER
     /\ ~IsNone(dbUser[ret.u])
     /\ ~Val(dbUser[ret.u]).is_superuser)
        => ~ret.pass

\* ---------------------------------------------------- channel services
RECURSIVE SortedSeq(_)
SortedSeq(S) ==
    IF S = {} THEN << >>
    ELSE LET m == CHOOSE x \in S : \A y \in S : x <= y
         IN  << m >> \o SortedSeq(S \ { m })

\* read_channels_from_db: Channel.all(), in primary-key order.
read_channels_from_db == SortedSeq(dbChannels)

EntryIds(m) == { e.id : e \in Range(m) }

\* What client.get_entity(entity_id) ends in inside fetch_channel_info:
\* an entity with a title, an error the except clause names, or another error.
TitleOutcomes == { "title", "ChannelPrivateError", "FloodWaitError" }
CaughtTitleErrors == { "ValueError", "ChannelInvalidError", "ChannelPrivateError" }

\* fetch_channel_info: the (channel_id, title, link) tuple, or the exception
\* that gather(return_exceptions=True) hands back in its place.
fetch_channel_info(c, outcome) ==
    IF outcome = "title" THEN Some(ChannelEntry(c, "entity_title"))
    ELSE IF outcome \in CaughtTitleErrors THEN Some(ChannelEntry(c, "raw_id"))
    ELSE None

\* The payload loop of build_channel_join_list: results that are exceptions
\* are skipped, the others become entries, in the order of `channels`.
RECURSIVE BuildPayload(_, _, _)
BuildPayload(channels, outcome, i) ==
    IF i > Len(channels) THEN << >>
    ELSE LET r == fetch_channel_info(channels[i], outcome[i])
         IN  (IF IsNone(r) THEN << >> ELSE << Val(r) >>)
                 \o BuildPayload(channels, outcome, i + 1)

HandlerReturn(p, name, ok) == Return(p, [ call |-> name, chan |-> loc[p].chan, ok |-> ok ])

\* handle_add_channel(channel c) ------------------------------------------
AC_Start(p, c) ==
    /\ Begin(p, "ac_create", [NoLoc EXCEPT !.chan = c, !.u = p])
    /\ UNCHANGED << convVars, gateVars, chanVars, userVars >>

\* channel = await Channel.create(**data); channel_id is unique, so a second
\* row with the id raises and the handler ends there
AC_Create(p) ==
    /\ pc[p] = "ac_create"
    /\ IF loc[p].chan \in dbChannels
       THEN /\ HandlerReturn(p, "handle_add_channel", FALSE)
            /\ UNCHANGED dbChannels
       ELSE /\ dbChannels' = dbChannels \cup { loc[p].chan }
            /\ Goto(p, "ac_invalidate", loc[p])
    /\ UNCHANGED << convVars, gateVars, userVars, CHANNEL_JOIN_LIST, redisChannels, lookupRaised >>

\* What invalidate_channel_cache leaves under the channel key.
invalidated(cached) == None

\* cache_invalidated = await cache.invalidate_channel_cache(); then
\* refresh_channel_join_cache begins
AC_Invalidate(p) ==
    /\ pc[p] = "ac_invalidate"
    /\ redisChannels' = invalidated(redisChannels)
    /\ Goto(p, "bl_get", [loc[p] EXCEPT !.after = TRUE])
    /\ UNCHANGED << convVars, gateVars, userVars, CHANNEL_JOIN_LIST, dbChannels, lookupRaised >>

\* handle_remove_channel(channel c) ---------------------------------------
RC_Start(p, c) ==
    /\ Begin(p, "rc_delete", [NoLoc EXCEPT !.chan = c, !.u = p])
    /\ UNCHANGED << convVars, gateVars, chanVars, userVars >>

\* deleted = await Channel.filter(...).delete(); nothing deleted: no
\* invalidation, no refresh, the "not found" answer
RC_Delete(p) ==
    /\ pc[p] = "rc_delete"
    /\ IF loc[p].chan \in dbChannels
       THEN /\ dbChannels' = dbChannels \ { loc[p].chan }
            /\ Goto(p, "rc_invalidate", loc[p])
       ELSE /\ HandlerReturn(p, "handle_remove_channel", FALSE)
            /\ UNCHANGED dbChannels
    /\ UNCHANGED << convVars, gateVars, userVars, CHANNEL_JOIN_LIST, redisChannels, lookupRaised >>

RC_Invalidate(p) ==
    /\ pc[p] = "rc_invalidate"
    /\ redisChannels' = invalidated(redisChannels)
    /\ Goto(p, "bl_get", [loc[p] EXCEPT !.after = FALSE])
    /\ UNCHANGED << convVars, gateVars, userVars, CHANNEL_JOIN_LIST, dbChannels, lookupRaised >>

\* refresh_channel_join_cache / build_channel_join_list -------------------
HandlerName(p) == IF loc[p].after THEN "handle_add_channel" ELSE "handle_remove_channel"

\* cached_channels = await cache.get_channel_list(); a hit is returned and
\* assigned to CHANNEL_JOIN_LIST
BL_Get(p) ==
    /\ pc[p] = "bl_get"
    /\ IF ~IsNone(redisChannels)
       THEN /\ CHANNEL_JOIN_LIST' = redisChannels
            /\ HandlerReturn(p, HandlerName(p), TRUE)
       ELSE /\ Goto(p, "bl_query", loc[p])
            /\ UNCHANGED CHANNEL_JOIN_LIST
    /\ UNCHANGED << convVars, gateVars, userVars, dbChannels, redisChannels, lookupRaised >>

\* channels = await read_channels_from_db()
BL_Query(p) ==
    /\ pc[p] = "bl_query"
    /\ Goto(p, "bl_lookup", [loc[p] EXCEPT !.chans = read_channels_from_db])
    /\ UNCHANGED << convVars, gateVars, chanVars, userVars >>

\* results = await asyncio.gather(*[fetch_channel_info(ch) ...]), and the
\* loop that fills payload
BL_Lookup(p, outcome) ==
    /\ pc[p] = "bl_lookup"
    /\ Goto(p, "bl_set",
            [loc[p] EXCEPT !.payload = BuildPayload(loc[p].chans, outcome, 1),
                           !.ids = { loc[p].chans[i] : i \in
                                       { j \in 1..Len(loc[p].chans) :
                                           outcome[j] # "title" } }])
    /\ lookupRaised' = (lookupRaised \/ \E i \in 1..Len(loc[p].chans) :
                           outcome[i] \notin CaughtTitleErrors \cup { "title" })
    /\ UNCHANGED << convVars, gateVars, userVars, CHANNEL_JOIN_LIST, dbChannels, redisChannels >>

\* cache_updated = await cache.set_channel_list(payload); return payload,
\* which refresh_channel_join_cache assigns to CHANNEL_JOIN_LIST
BL_Set(p) ==
    /\ pc[p] = "bl_set"
    /\ redisChannels' = Some(loc[p].payload)
    /\ CHANNEL_JOIN_LIST' = Some(loc[p].payload)
    /\ HandlerReturn(p, HandlerName(p), TRUE)
    /\ UNCHANGED << convVars, gateVars, userVars, dbChannels, lookupRaised >>

ChannelSteps(p) ==
    \/ AC_Create(p) \/ AC_Invalidate(p) \/ RC_Delete(p) \/ RC_Invalidate(p)
    \/ BL_Get(p) \/ BL_Query(p) \/ BL_Set(p)
    \/ \E outcome \in [1..Len(loc[p].chans) -> TitleOutcomes] : BL_Lookup(p, outcome)

\* The channel map and join list as the startup warm-up leaves them: every
\* stored channel, title resolved.
InitChannels ==
    /\ dbChannels \in SUBSET ChannelIds
    /\ redisChannels = Some([ i \in 1..Cardinality(dbChannels) |->
                                ChannelEntry(SortedSeq(dbChannels)[i], "entity_title") ])
    /\ CHANNEL_JOIN_LIST = redisChannels
    /\ lookupRaised = FALSE

InitChannelServices ==
    /\ ConvQuiet
    /\ InitChannels
    /\ UsersQuiet
    /\ ProcsQuiet
    /\ gateRun = NoGateRun

\* One admin's channel handler at a time.
NextChannelsSeq ==
    \E p \in Procs :
        \/ \E c \in ChannelIds : AllIdle /\ AC_Start(p, c)
        \/ \E c \in ChannelIds : AllIdle /\ RC_Start(p, c)
        \/ ChannelSteps(p)

SpecChannelsSeq == InitChannelServices /\ [][NextChannelsSeq]_vars

\* The channel handlers of several admins, interleaving at their suspension
\* points.
NextChannelsConc ==
    \E p \in Procs :
        \/ \E c \in ChannelIds : AC_Start(p, c)
        \/ \E c \in ChannelIds : RC_Start(p, c)
        \/ ChannelSteps(p)

SpecChannelsConc == InitChannelServices /\ [][NextChannelsConc]_vars

\* ------------------------------------------------------- C5, C6, C7
\* The channels a membership gate check requires: those of the join list.
RequiredChannels == EntryIds(Val(CHANNEL_JOIN_LIST))

\* C5: after an add-channel or remove-channel handler has completed with
\* success and no other channel mutation in progress, a gate check requires
\* exactly the channels of the durable store.
C5_GateRequiresStoredChannels ==
    (/\ AllIdle
     /\ ret.call \in { "handle_add_channel", "handle_remove_channel" }
     /\ ret.ok)
        => RequiredChannels = dbChannels

\* C6: once interleaved channel handlers have all completed, the cached
\* channel map and the in-process join list hold exactly the stored channels
\* (stated for runs in which every title lookup succeeded or raised an error
\* that fetch_channel_info catches).
C6_ChannelSetsAgreeAfterRace ==
    (AllIdle /\ ~lookupRaised) =>
        /\ RequiredChannels = dbChannels
        /\ ~IsNone(redisChannels) => EntryIds(Val(redisChannels)) = dbChannels

\* C7: the payload a rebuild is about to cache has one entry for every
\* channel it read from the store; a failed title lookup leaves the raw id.
C7_RebuildKeepsEveryChannel ==
    \A p \in Procs :
        pc[p] = "bl_set" =>
            /\ Len(loc[p].payload) = Len(loc[p].chans)
            /\ \A i \in 1..Len(loc[p].chans) :
                   /\ loc[p].payload[i].id = loc[p].chans[i]
                   /\ loc[p].chans[i] \in loc[p].ids =>
                          loc[p].payload[i] = ChannelEntry(loc[p].chans[i], "raw_id")

\* ------------------------------------------------------ handler dispatch
\* The members of State, and "None" for no state.
States ==
    { "None", "USER_UPLOAD_FILE", "USER_DELETE_FILE", "USER_SEND_ID_FOR_SET_CAPTION",
      "USER_SEND_TEXT_FOR_SET_CAPTION", "USER_SEND_ID_FOR_UNSET_CAPTION",
      "USER_SEND_ID_FOR_SET_PASSWORD", "USER_SEND_TEXT_FOR_SET_PASSWORD",
      "USER_SEND_ID_FOR_UNSET_PASSWORD", "USER_SEND_PASSWORD_FOR_GET_FILE",
      "USER_SEND_ID_FILE_FOR_TRACKING", "USER_ADMIN_PANEL", "USER_SET_ADMIN",
      "USER_UNSET_ADMIN", "USER_FORWARD_MESSAGE_FOR_ALL", "USER_SEND_MESSAGE_FOR_ALL",
      "USER_JOIN_CHANNEL_PANEL", "USER_ADD_CHANNEL", "USER_REMOVE_CHANNEL" }

ADMIN_CONTEXT_STATES ==
    { "USER_ADMIN_PANEL", "USER_SET_ADMIN", "USER_UNSET_ADMIN",
      "USER_FORWARD_MESSAGE_FOR_ALL", "USER_SEND_MESSAGE_FOR_ALL",
      "USER_JOIN_CHANNEL_PANEL", "USER_ADD_CHANNEL", "USER_REMOVE_CHANNEL" }

\* The keyboard labels and commands of USER_COMMANDS, each under an ASCII name.
USER_COMMANDS ==
    { "/start", "upload_file", "delete_file", "set_caption", "unset_caption",
      "set_password", "unset_password", "tracking", "upload_history", "account",
      "creator", "back", "/admin", "forced_join", "forward_all", "message_all",
      "unset_admin", "admin_list", "set_admin", "statistics", "backup",
      "channel_list", "add_channel", "remove_channel" }

\* The two buttons of the upload keyboard that are not in USER_COMMANDS.
UploadButtons == { "finish_upload", "cancel_upload" }

\* A message text: a label, "/start get_<code>", another slash command, or a
\* payload: a decimal user id, a channel definition "@name", a stored
\* channel's id or link, a string of code length, the password of the file in
\* context, a string longer than a code, or no text at all (a media message).
Text(k, s, n) == [ k |-> k, s |-> s, n |-> n ]
Label(s) == Text("label", s, 0)

\* A variant of is_user_command that knows the slash commands only, which
\* C11 must tell apart from the code's.
is_user_command_slash_only(text) == text.k \in { "startget", "slash" }

\* text.startswith("/") or text in USER_COMMANDS
is_user_command(text) ==
    \/ text.k \in { "startget", "slash" }
    \/ text.k = "label" /\ text.s \in USER_COMMANDS

\* is_valid_code of the stripped text: 0 < len(code) <= 32
is_valid_code(text) == text.k \in { "userid", "chan_payload", "chan_ref", "code", "password" }

\* A row of the file table as far as delivery goes: its owner, and whether
\* its password is set.
FileRows == [ owner : Users, password : BOOLEAN ]

\* The world a handler runs in, as one record.
World ==
    [ state |-> CONVERSATION_STATE, obj |-> CONVERSATION_OBJECT, session |-> sessions,
      dbUser |-> dbUser, redisUsers |-> redisUsers, redisAdmins |-> redisAdmins,
      redisDetail |-> redisDetail, dbChannels |-> dbChannels,
      redisChannels |-> redisChannels, cjl |-> CHANNEL_JOIN_LIST, raised |-> lookupRaised ]

set_state(w, u, st) == [w EXCEPT !.state[u] = st]
reset_context(w, u) == [w EXCEPT !.obj[u] = None, !.state[u] = "None"]

\* create_user_from_db({"userid": u}) run to its end.
create_user_from_db(w, u) ==
    IF ~IsNone(w.dbUser[u]) THEN w
    ELSE LET row == Some(UserRow(FALSE, FALSE))
         IN  [w EXCEPT !.dbUser[u] = row,
                       !.redisUsers = IF ~IsNone(@) /\ u \notin Val(@)
                                      THEN Some(appended(Val(@), u)) ELSE @,
                       !.redisDetail[u] = row]

ensure_user_record(w, u) ==
    IF IsNone(w.dbUser[u]) THEN create_user_from_db(w, u) ELSE w

\* The lookup outcome of each entry of the join list, from the event's
\* per-channel outcomes.
GateOutcome(channels, perm) ==
    [ i \in 1..Len(channels) |->
        IF channels[i].id \in DOMAIN perm THEN perm[channels[i].id] ELSE "permissions" ]

ensure_access(w, e, require_join) ==
    LET w1 == ensure_user_record(w, e.sender)
        g == IF require_join
             THEN enforce_channel_membership(Val(w1.cjl), GateOutcome(Val(w1.cjl), e.perm))
             ELSE [ pass |-> TRUE, sent |-> FALSE, buttons |-> << >> ]
    IN  [ w |-> w1, pass |-> g.pass, sent |-> g.sent ]

\* read_user_from_db(u) run to its end: the cached detail on a hit, else the
\* row, which it caches.
read_user_from_db(w, u) ==
    IF ~IsNone(w.redisDetail[u]) THEN [ w |-> w, user |-> w.redisDetail[u] ]
    ELSE IF IsNone(w.dbUser[u]) THEN [ w |-> w, user |-> None ]
    ELSE [ w |-> [w EXCEPT !.redisDetail[u] = w.dbUser[u]], user |-> w.dbUser[u] ]

\* ADMIN_PREDICATE = admin_filter(ADMIN_MASTER)
admin_filter(w, u) ==
    IF u = ADMIN_MASTER THEN [ w |-> w, pass |-> TRUE ]
    ELSE LET r == read_user_from_db(w, u)
         IN  [ w |-> r.w, pass |-> admin_verdict(r.user) ]

\* change_admin_from_db(u, is_staff=staff) run to its end.
change_admin_from_db(w, u, staff) ==
    IF IsNone(w.dbUser[u]) THEN [ w |-> w, updated |-> FALSE ]
    ELSE LET row == Some([Val(w.dbUser[u]) EXCEPT !.is_staff = staff])
             w1 == [w EXCEPT !.dbUser[u] = row, !.redisDetail[u] = row]
             admins == { x \in Users : ~IsNone(w1.dbUser[x]) /\ IsAdminRow(Val(w1.dbUser[x])) }
         IN  [ w |-> [w1 EXCEPT !.redisAdmins = Some(admin_ids_rebuilt(admins, w.redisAdmins))],
               updated |-> TRUE ]

\* refresh_channel_join_cache run to its end, with the title lookup outcome
\* of each channel.
refresh_channel_join_cache(w, titles) ==
    IF ~IsNone(w.redisChannels) THEN [w EXCEPT !.cjl = w.redisChannels]
    ELSE LET chans == SortedSeq(w.dbChannels)
             outcome == [ i \in 1..Len(chans) |-> titles[chans[i]] ]
             payload == BuildPayload(chans, outcome, 1)
         IN  [w EXCEPT !.redisChannels = Some(payload), !.cjl = Some(payload),
                       !.raised = (@ \/ \E i \in 1..Len(chans) :
                                         outcome[i] \notin CaughtTitleErrors \cup { "title" })]

\* read_file_from_db(code, userid=u): the row with the code if u owns it.
read_file_from_db(e, u) ==
    IF e.text.k = "code" /\ ~IsNone(e.file) /\ Val(e.file).owner = u THEN e.file ELSE None

\* How a handler ended: the world it left, whether it raised StopPropagation,
\* whether it sent a message, whether it wrote the file table, and the admin
\* action it carried out ("" for none).
Res(w, stop, sent) ==
    [ w |-> w, stop |-> stop, sent |-> sent, files |-> FALSE, act |-> "", raised |-> FALSE ]
ResFiles(w, stop, sent) == [Res(w, stop, sent) EXCEPT !.files = TRUE]
ResAdmin(w, stop, sent, act) == [Res(w, stop, sent) EXCEPT !.act = act]

\* A callback that an awaited call ended with an exception other than
\* StopPropagation: the client logs it and goes on to the next handler.
Raise(w, sent) == [Res(w, FALSE, sent) EXCEPT !.raised = TRUE]

\* The awaited calls of a handler are numbered in the order it makes them;
\* e.fail is the number of the one that raises, 0 when none does.
MaxFail == 3

\* A handler that begins with `if not await ensure_access(event): raise
\* events.StopPropagation`: the gate's answer when access fails.
Refused(a) == Res(a.w, TRUE, a.sent)

handle_start(w, e) ==
    LET a == ensure_access(w, e, TRUE)
    IN  IF ~a.pass THEN Refused(a)
        ELSE Res(reset_context(a.w, e.sender), TRUE, TRUE)

\* send_file increments the download count of the row it delivered.
\* Awaited calls: 1 ensure_access, 2 read_file_from_db, 3 the send.
handle_get_file(w, e) ==
    LET a == ensure_access(w, e, TRUE)
        u == e.sender
        w1 == reset_context(a.w, u)
        w2 == set_state([w1 EXCEPT !.obj[u] = e.file], u, "USER_SEND_PASSWORD_FOR_GET_FILE")
    IN  IF e.fail = 1 THEN Raise(w, FALSE)
        ELSE IF ~a.pass THEN Refused(a)
        ELSE IF e.fail = 2 THEN Raise(w1, FALSE)
        ELSE IF IsNone(e.file) THEN (IF e.fail = 3 THEN Raise(w1, FALSE) ELSE Res(w1, TRUE, TRUE))
        ELSE IF ~Val(e.file).password \/ Val(e.file).owner = u
        THEN (IF e.fail = 3 THEN Raise(w1, FALSE) ELSE ResFiles(w1, FALSE, TRUE))
        ELSE IF e.fail = 3 THEN Raise(w2, FALSE)
        ELSE Res(w2, TRUE, TRUE)

\* handle_admin_panel, handle_join_panel and the admin prompts: set the state,
\* send the menu or the prompt, stop.
admin_prompt(w, e, target) == Res(set_state(w, e.sender, target), TRUE, TRUE)

\* handle_channel_list, handle_backup, handle_status: one answer, no stop.
admin_report(w, e) == Res(w, FALSE, TRUE)

\* read_users(is_admin=True) fills the admin-id key on a miss.
handle_admin_list(w, e) ==
    LET admins == { x \in Users : ~IsNone(w.dbUser[x]) /\ IsAdminRow(Val(w.dbUser[x])) }
    IN  Res(IF IsNone(w.redisAdmins) THEN [w EXCEPT !.redisAdmins = Some(admins)] ELSE w,
            FALSE, TRUE)

\* A variant of handle_back that always returns to the user menu, which C34
\* must tell apart from the code's.
handle_back_to_menu(w, e) ==
    LET a == ensure_access(w, e, TRUE)
    IN  IF ~a.pass THEN Refused(a)
        ELSE Res(reset_context(a.w, e.sender), TRUE, TRUE)

\* A variant of handle_back that opens the admin panel from every state,
\* which C35 must tell apart from the code's.
handle_back_to_panel(w, e) ==
    LET a == ensure_access(w, e, TRUE)
    IN  IF ~a.pass THEN Refused(a)
        ELSE ResAdmin(set_state(a.w, e.sender, "USER_ADMIN_PANEL"), TRUE, TRUE,
                      "send_admin_menu")

handle_back(w, e) ==
    LET a == ensure_access(w, e, TRUE)
        u == e.sender
        current_state == a.w.state[u]
    IN  IF ~a.pass THEN Refused(a)
        ELSE IF current_state \in { "USER_ADD_CHANNEL", "USER_REMOVE_CHANNEL" }
        THEN ResAdmin(set_state(a.w, u, "USER_JOIN_CHANNEL_PANEL"), TRUE, TRUE, "send_join_menu")
        ELSE IF current_state \in ADMIN_CONTEXT_STATES
        THEN ResAdmin(set_state(a.w, u, "USER_ADMIN_PANEL"), TRUE, TRUE, "send_admin_menu")
        ELSE Res(reset_context(a.w, u), TRUE, TRUE)

\* Awaited calls: 1 ensure_access, 2 send_message.
handle_upload_prompt(w, e) ==
    LET a == ensure_access(w, e, TRUE)
        u == e.sender
        w1 == set_state([a.w EXCEPT !.session[u] = "empty"], u, "USER_UPLOAD_FILE")
    IN  IF e.fail = 1 THEN Raise(w, FALSE)
        ELSE IF ~a.pass THEN Refused(a)
        ELSE IF e.fail = 2 THEN Raise(w1, FALSE)
        ELSE Res(w1, TRUE, TRUE)

\* handle_remove_prompt and the caption, password and tracking prompts.
user_prompt(w, e, target) ==
    LET a == ensure_access(w, e, TRUE)
    IN  IF ~a.pass THEN Refused(a)
        ELSE Res(set_state(a.w, e.sender, target), TRUE, TRUE)

\* handle_file_history, handle_account, handle_creator: one answer (or the
\* pages of the history), no stop.
user_report(w, e) ==
    LET a == ensure_access(w, e, TRUE)
    IN  IF ~a.pass THEN Refused(a) ELSE Res(a.w, FALSE, TRUE)

\* A second row with a stored channel_id makes Channel.create raise.
handle_add_channel(w, e) ==
    LET u == e.sender
        c == e.text.n
    IN  IF is_user_command(e.text) THEN Res(w, FALSE, FALSE)
        ELSE IF e.text.k # "chan_payload" THEN Res(w, FALSE, TRUE)
        ELSE IF c \in w.dbChannels THEN Res(w, FALSE, FALSE)
        ELSE LET w1 == [w EXCEPT !.dbChannels = @ \cup { c },
                                 !.redisChannels = invalidated(@)]
                 w2 == set_state(w1, u, "USER_JOIN_CHANNEL_PANEL")
             IN  Res(refresh_channel_join_cache(w2, e.titles), FALSE, TRUE)

handle_remove_channel(w, e) ==
    LET u == e.sender
        c == e.text.n
    IN  IF is_user_command(e.text) THEN Res(w, FALSE, FALSE)
        ELSE IF e.text.k = "chan_ref" /\ c \in w.dbChannels
        THEN LET w1 == [w EXCEPT !.dbChannels = @ \ { c },
                                 !.redisChannels = invalidated(@)]
                 w2 == set_state(w1, u, "USER_JOIN_CHANNEL_PANEL")
             IN  Res(refresh_channel_join_cache(w2, e.titles), FALSE, TRUE)
        ELSE Res(w, FALSE, TRUE)

\* handle_forward_message, handle_broadcast_message: the panel state first,
\* then the status message, the fan-out, the result and the admin menu.
\* Awaited calls: 1 read_users, 2 the status message, 3 the result message
\* (broadcast_to_users, between them, does not raise).
broadcast(w, e) ==
    LET w1 == set_state(w, e.sender, "USER_ADMIN_PANEL")
    IN  IF is_user_command(e.text) THEN Res(w, FALSE, FALSE)
        ELSE IF e.fail \in { 1, 2 } THEN Raise(w1, FALSE)
        ELSE IF e.fail = 3 THEN Raise(w1, TRUE)
        ELSE Res(w1, FALSE, TRUE)

\* handle_set_admin (staff = TRUE), handle_unset_admin (staff = FALSE)
handle_change_admin(w, e, staff) ==
    IF is_user_command(e.text) THEN Res(w, FALSE, FALSE)
    ELSE IF e.text.k # "userid" THEN Res(w, FALSE, TRUE)
    ELSE LET r == change_admin_from_db(w, e.text.n, staff)
         IN  IF r.updated THEN Res(set_state(r.w, e.sender, "USER_ADMIN_PANEL"), FALSE, TRUE)
             ELSE Res(r.w, FALSE, TRUE)

handle_tracking_request(w, e) ==
    LET a == ensure_access(w, e, FALSE)
        file == read_file_from_db(e, e.sender)
    IN  IF is_user_command(e.text) THEN Res(a.w, FALSE, FALSE)
        ELSE IF ~is_valid_code(e.text) THEN Res(a.w, FALSE, TRUE)
        ELSE IF IsNone(file) THEN Res(a.w, FALSE, TRUE)
        ELSE Res(reset_context(a.w, e.sender), TRUE, TRUE)

handle_passworded_file(w, e) ==
    LET u == e.sender
        file == w.obj[u]
    IN  IF is_user_command(e.text) THEN Res(w, FALSE, FALSE)
        ELSE IF IsNone(file) THEN Res(reset_context(w, u), FALSE, FALSE)
        ELSE IF Val(file).password /\ e.text.k = "password"
        THEN ResFiles(reset_context(w, u), TRUE, TRUE)
        ELSE Res(w, FALSE, TRUE)

\* handle_unset_password, handle_unset_caption: clear the field of an owned
\* file and save it.
unset_field(w, e) ==
    LET file == read_file_from_db(e, e.sender)
    IN  IF is_user_command(e.text) THEN Res(w, FALSE, FALSE)
        ELSE IF ~is_valid_code(e.text) THEN Res(w, FALSE, TRUE)
        ELSE IF IsNone(file) THEN Res(w, FALSE, TRUE)
        ELSE ResFiles(reset_context(w, e.sender), TRUE, TRUE)

\* handle_get_password_object, handle_get_caption_object: keep the owned file
\* as the context and ask for the text.
get_object(w, e, target) ==
    LET file == read_file_from_db(e, e.sender)
        u == e.sender
    IN  IF is_user_command(e.text) THEN Res(w, FALSE, FALSE)
        ELSE IF ~is_valid_code(e.text) THEN Res(w, FALSE, TRUE)
        ELSE IF IsNone(file) THEN Res(w, FALSE, TRUE)
        ELSE Res(set_state([w EXCEPT !.obj[u] = file], u, target), TRUE, TRUE)

\* handle_set_password, handle_set_caption: write the text to the file in
\* context and save it.
set_field(w, e) ==
    LET u == e.sender
    IN  IF is_user_command(e.text) THEN Res(w, FALSE, FALSE)
        ELSE IF IsNone(w.obj[u]) THEN Res(reset_context(w, u), FALSE, FALSE)
        ELSE ResFiles(reset_context(w, u), TRUE, TRUE)

\* delete_file_from_db(sender, code) deletes the row if the sender owns it.
handle_delete_file(w, e) ==
    IF is_user_command(e.text) THEN Res(w, FALSE, FALSE)
    ELSE IF ~is_valid_code(e.text) THEN Res(w, FALSE, TRUE)
    ELSE IF ~IsNone(read_file_from_db(e, e.sender))
    THEN ResFiles(reset_context(w, e.sender), TRUE, TRUE)
    ELSE Res(w, FALSE, TRUE)

\* A message that is not part of an album: the upload buttons are left to
\* their handlers, a text is refused, a media message joins the session.
handle_upload_file(w, e) ==
    LET u == e.sender
    IN  IF is_user_command(e.text) THEN Res(w, FALSE, FALSE)
        ELSE IF e.text.k = "label" /\ e.text.s \in UploadButtons THEN Res(w, FALSE, FALSE)
        ELSE IF e.text.k # "media" THEN Res(w, FALSE, TRUE)
        ELSE IF w.session[u] = "none" THEN Res(w, FALSE, TRUE)
        ELSE Res([w EXCEPT !.session[u] = "files"], FALSE, TRUE)

handle_finish_upload(w, e) ==
    LET u == e.sender
    IN  IF w.session[u] # "files" THEN Res(reset_context(w, u), TRUE, TRUE)
        ELSE ResFiles(reset_context([ensure_user_record(w, u) EXCEPT !.session[u] = "none"], u),
                      TRUE, TRUE)

handle_cancel_upload(w, e) ==
    LET u == e.sender
    IN  IF w.session[u] # "files" THEN Res(reset_context(w, u), TRUE, TRUE)
        ELSE Res(reset_context([w EXCEPT !.session[u] = "none"], u), TRUE, TRUE)

handle_idle(w, e) ==
    LET a == ensure_access(w, e, TRUE)
    IN  IF ~a.pass THEN Refused(a)
        ELSE IF is_user_command(e.text) THEN Res(a.w, FALSE, FALSE)
        ELSE Res(a.w, TRUE, TRUE)

handle_admin_idle(w, e) ==
    LET a == ensure_access(w, e, TRUE)
    IN  IF ~a.pass THEN Refused(a) ELSE Res(a.w, FALSE, FALSE)

\* The NewMessage handlers in the order main.py registers them: the label
\* the pattern matches ("" for no pattern), the state conversation() requires
\* ("ANY" for no state predicate), and whether ADMIN_PREDICATE is composed in.
H(name, pattern, state, admin) ==
    [ name |-> name, pattern |-> pattern, state |-> state, admin |-> admin ]

Handlers ==
    << H("handle_start", "/start", "ANY", FALSE),
       H("handle_get_file", "/start get_", "ANY", FALSE),
       H("handle_admin_panel", "/admin", "ANY", TRUE),
       H("handle_channel_list", "channel_list", "USER_JOIN_CHANNEL_PANEL", TRUE),
       H("handle_add_channel_prompt", "add_channel", "USER_JOIN_CHANNEL_PANEL", TRUE),
       H("handle_remove_channel_prompt", "remove_channel", "USER_JOIN_CHANNEL_PANEL", TRUE),
       H("handle_join_panel", "forced_join", "USER_ADMIN_PANEL", TRUE),
       H("handle_set_admin_prompt", "set_admin", "USER_ADMIN_PANEL", TRUE),
       H("handle_unset_admin_prompt", "unset_admin", "USER_ADMIN_PANEL", TRUE),
       H("handle_admin_list", "admin_list", "USER_ADMIN_PANEL", TRUE),
       H("handle_backup", "backup", "USER_ADMIN_PANEL", TRUE),
       H("handle_status", "statistics", "USER_ADMIN_PANEL", TRUE),
       H("handle_forward_prompt", "forward_all", "USER_ADMIN_PANEL", TRUE),
       H("handle_broadcast_prompt", "message_all", "USER_ADMIN_PANEL", TRUE),
       H("handle_back", "back", "ANY", FALSE),
       H("handle_upload_prompt", "upload_file", "ANY", FALSE),
       H("handle_remove_prompt", "delete_file", "ANY", FALSE),
       H("handle_set_caption_prompt", "set_caption", "ANY", FALSE),
       H("handle_unset_caption_prompt", "unset_caption", "ANY", FALSE),
       H("handle_set_password_prompt", "set_password", "ANY", FALSE),
       H("handle_unset_password_prompt", "unset_password", "ANY", FALSE),
       H("handle_tracking_prompt", "tracking", "ANY", FALSE),
       H("handle_file_history", "upload_history", "ANY", FALSE),
       H("handle_account", "account", "ANY", FALSE),
       H("handle_creator", "creator", "ANY", FALSE),
       H("handle_add_channel", "", "USER_ADD_CHANNEL", TRUE),
       H("handle_remove_channel", "", "USER_REMOVE_CHANNEL", TRUE),
       H("handle_forward_message", "", "USER_FORWARD_MESSAGE_FOR_ALL", TRUE),
       H("handle_broadcast_message", "", "USER_SEND_MESSAGE_FOR_ALL", TRUE),
       H("handle_set_admin", "", "USER_SET_ADMIN", TRUE),
       H("handle_unset_admin", "", "USER_UNSET_ADMIN", TRUE),
       H("handle_tracking_request", "", "USER_SEND_ID_FILE_FOR_TRACKING", FALSE),
       H("handle_passworded_file", "", "USER_SEND_PASSWORD_FOR_GET_FILE", FALSE),
       H("handle_unset_password", "", "USER_SEND_ID_FOR_UNSET_PASSWORD", FALSE),
       H("handle_get_password_object", "", "USER_SEND_ID_FOR_SET_PASSWORD", FALSE),
       H("handle_set_password", "", "USER_SEND_TEXT_FOR_SET_PASSWORD", FALSE),
       H("handle_unset_caption", "", "USER_SEND_ID_FOR_UNSET_CAPTION", FALSE),
       H("handle_get_caption_object", "", "USER_SEND_ID_FOR_SET_CAPTION", FALSE),
       H("handle_set_caption", "", "USER_SEND_TEXT_FOR_SET_CAPTION", FALSE),
       H("handle_delete_file", "", "USER_DELETE_FILE", FALSE),
       H("handle_upload_file", "", "USER_UPLOAD_FILE", FALSE),
       H("handle_finish_upload", "finish_upload", "USER_UPLOAD_FILE", FALSE),
       H("handle_cancel_upload", "cancel_upload", "USER_UPLOAD_FILE", FALSE),
       H("handle_idle", "", "None", FALSE),
       H("handle_admin_idle", "", "USER_ADMIN_PANEL", TRUE) >>

\* The callback of a handler.
Body(name, w, e) ==
    CASE name = "handle_start" -> handle_start(w, e)
      [] name = "handle_get_file" -> handle_get_file(w, e)
      [] name = "handle_admin_panel" -> admin_prompt(w, e, "USER_ADMIN_PANEL")
      [] name = "handle_channel_list" -> admin_report(w, e)
      [] name = "handle_add_channel_prompt" -> admin_prompt(w, e, "USER_ADD_CHANNEL")
      [] name = "handle_remove_channel_prompt" -> admin_prompt(w, e, "USER_REMOVE_CHANNEL")
      [] name = "handle_join_panel" -> admin_prompt(w, e, "USER_JOIN_CHANNEL_PANEL")
      [] name = "handle_set_admin_prompt" -> admin_prompt(w, e, "USER_SET_ADMIN")
      [] name = "handle_unset_admin_prompt" -> admin_prompt(w, e, "USER_UNSET_ADMIN")
      [] name = "handle_admin_list" -> handle_admin_list(w, e)
      [] name = "handle_backup" -> admin_report(w, e)
      [] name = "handle_status" -> admin_report(w, e)
      [] name = "handle_forward_prompt" -> admin_prompt(w, e, "USER_FORWARD_MESSAGE_FOR_ALL")
      [] name = "handle_broadcast_prompt" -> admin_prompt(w, e, "USER_SEND_MESSAGE_FOR_ALL")
      [] name = "handle_back" -> handle_back(w, e)
      [] name = "handle_upload_prompt" -> handle_upload_prompt(w, e)
      [] name = "handle_remove_prompt" -> user_prompt(w, e, "USER_DELETE_FILE")
      [] name = "handle_set_caption_prompt" -> user_prompt(w, e, "USER_SEND_ID_FOR_SET_CAPTION")
      [] name = "handle_unset_caption_prompt" -> user_prompt(w, e, "USER_SEND_ID_FOR_UNSET_CAPTION")
      [] name = "handle_set_password_prompt" -> user_prompt(w, e, "USER_SEND_ID_FOR_SET_PASSWORD")
      [] name = "handle_unset_password_prompt" -> user_prompt(w, e, "USER_SEND_ID_FOR_UNSET_PASSWORD")
      [] name = "handle_tracking_prompt" -> user_prompt(w, e, "USER_SEND_ID_FILE_FOR_TRACKING")
      [] name \in { "handle_file_history", "handle_account", "handle_creator" } -> user_report(w, e)
      [] name = "handle_add_channel" -> handle_add_channel(w, e)
      [] name = "handle_remove_channel" -> handle_remove_channel(w, e)
      [] name \in { "handle_forward_message", "handle_broadcast_message" } -> broadcast(w, e)
      [] name = "handle_set_admin" -> handle_change_admin(w, e, TRUE)
      [] name = "handle_unset_admin" -> handle_change_admin(w, e, FALSE)
      [] name = "handle_tracking_request" -> handle_tracking_request(w, e)
      [] name = "handle_passworded_file" -> handle_passworded_file(w, e)
      [] name \in { "handle_unset_password", "handle_unset_caption" } -> unset_field(w, e)
      [] name = "handle_get_password_object" -> get_object(w, e, "USER_SEND_TEXT_FOR_SET_PASSWORD")
      [] name = "handle_get_caption_object" -> get_object(w, e, "USER_SEND_TEXT_FOR_SET_CAPTION")
      [] name \in { "handle_set_password", "handle_set_caption" } -> set_field(w, e)
      [] name = "handle_delete_file" -> handle_delete_file(w, e)
      [] name = "handle_upload_file" -> handle_upload_file(w, e)
      [] name = "handle_finish_upload" -> handle_finish_upload(w, e)
      [] name = "handle_cancel_upload" -> handle_cancel_upload(w, e)
      [] name = "handle_idle" -> handle_idle(w, e)
      [] name = "handle_admin_idle" -> handle_admin_idle(w, e)

\* NewMessage.filter: the pattern is matched against the text first.
PatternMatches(h, text) ==
    \/ h.pattern = ""
    \/ h.pattern = "/start get_" /\ text.k = "startget"
    \/ h.pattern # "/start get_" /\ text.k = "label" /\ text.s = h.pattern

\* private_only
private_only(e) == e.private


\* A handler performed an effect when it sent a message or changed the state
\* store, the upload sessions or the durable store.
Effect(w, r) ==
    \/ r.sent
    \/ r.files
    \/ r.w.state # w.state
    \/ r.w.obj # w.obj
    \/ r.w.session # w.session
    \/ r.w.dbUser # w.dbUser
    \/ r.w.dbChannels # w.dbChannels

\* The admin action a run of handler h carried out, "" for none: what an
\* admin-gated handler did, or the panel handle_back opened.
ActionOf(h, w, r) ==
    IF r.act # "" THEN r.act
    ELSE IF h.admin /\ h.name # "handle_admin_idle" /\ Effect(w, r) THEN h.name
    ELSE ""

\* The global commands of the user keyboard: "/start", the back button and
\* the user menu labels, each the pattern of a handler registered with
\* private_only() alone.
GlobalCommands ==
    { "/start", "back", "upload_file", "delete_file", "set_caption", "unset_caption",
      "set_password", "unset_password", "tracking", "upload_history", "account", "creator" }

\* A handler registered without a pattern takes the message text as the
\* payload of its state; it consumed the text when its run had an effect.
Consumes(h, w, r) == h.pattern = "" /\ Effect(w, r)

\* The dispatch of one event over the handlers from the i-th on: each
\* handler's predicates are evaluated when its turn comes, on the world the
\* handlers before it left; a callback that raises StopPropagation ends it.
RECURSIVE Dispatch(_, _, _, _)

\* Callback of h returned r on world w: log it, then stop or go on.
Ran(i, h, w, r, e, fired) ==
    LET log == Append(fired, [ name |-> h.name, effect |-> Effect(w, r),
                               act |-> ActionOf(h, w, r),
                               global |-> h.pattern # "" /\ h.state = "ANY" /\ ~h.admin
                                            /\ Effect(w, r),
                               payload |-> Consumes(h, w, r),
                               raised |-> r.raised ])
    IN  IF r.stop THEN [ w |-> r.w, fired |-> log ]
        ELSE Dispatch(i + 1, r.w, e, log)

\* The admin predicate of h answered p: skip the handler or run its callback.
Filtered(i, h, p, e, fired) ==
    IF ~p.pass THEN Dispatch(i + 1, p.w, e, fired)
    ELSE Ran(i, h, p.w, Body(h.name, p.w, e), e, fired)

\* The filters of the handlers, tabulated: the handlers whose pattern accepts
\* a text, by what the patterns tell apart in it, and the handlers whose
\* conversation() accepts a state.
PatternKey(text) ==
    IF text.k = "label" THEN text.s
    ELSE IF text.k = "startget" THEN "/start get_"
    ELSE ""

KeyText(key) ==
    IF key = "" THEN Text("long", "", 0)
    ELSE IF key = "/start get_" THEN Text("startget", "", 0)
    ELSE Label(key)

ByPattern ==
    [ key \in USER_COMMANDS \cup UploadButtons \cup { "", "/start get_" } |->
        { j \in 1..Len(Handlers) : PatternMatches(Handlers[j], KeyText(key)) } ]

ByState ==
    [ st \in States |-> { j \in 1..Len(Handlers) : Handlers[j].state \in { "ANY", st } } ]

\* The handlers from the i-th on whose pattern, private_only and
\* conversation() accept the event on world w.
Accepting(i, w, e) ==
    IF ~private_only(e) THEN {}
    ELSE { j \in ByPattern[PatternKey(e.text)] \cap ByState[w.state[e.sender]] : j >= i }

Dispatch(i, w, e, fired) ==
    LET S == Accepting(i, w, e)
    IN  IF S = {} THEN [ w |-> w, fired |-> fired ]
        ELSE LET j == CHOOSE x \in S : \A y \in S : x <= y
                 h == Handlers[j]
             IN  Filtered(j, h, IF h.admin THEN admin_filter(w, e.sender)
                                          ELSE [ w |-> w, pass |-> TRUE ], e, fired)

\* One inbound message, dispatched to its end; a behaviour delivers at most
\* `budget` of them.
Dispatched(e, budget) ==
    /\ delivered < budget
    /\ delivered' = delivered + 1
    /\ \E d \in { Dispatch(1, World, e, << >>) } :
           /\ CONVERSATION_STATE' = d.w.state
           /\ CONVERSATION_OBJECT' = d.w.obj
           /\ sessions' = d.w.session
           /\ dbUser' = d.w.dbUser
           /\ redisUsers' = d.w.redisUsers
           /\ redisAdmins' = d.w.redisAdmins
           /\ redisDetail' = d.w.redisDetail
           /\ dbChannels' = d.w.dbChannels
           /\ redisChannels' = d.w.redisChannels
           /\ CHANNEL_JOIN_LIST' = d.w.cjl
           /\ lookupRaised' = d.w.raised
           /\ lastEvent' = [ seen |-> TRUE,
                             admin |-> admin_filter(World, e.sender).pass,
                             ran |-> Len(d.fired),
                             effects |-> Cardinality({ i \in 1..Len(d.fired) : d.fired[i].effect }),
                             acts |-> { d.fired[i].act : i \in 1..Len(d.fired) } \ { "" },
                             command |-> e.private /\ e.text.k = "label"
                                           /\ e.text.s \in GlobalCommands,
                             member |-> enforce_channel_membership(Val(CHANNEL_JOIN_LIST),
                                           GateOutcome(Val(CHANNEL_JOIN_LIST), e.perm)).pass,
                             awaiting |-> CONVERSATION_STATE[e.sender]
                                            \notin { "None", "USER_ADMIN_PANEL",
                                                     "USER_JOIN_CHANNEL_PANEL" },
                             handled |-> \E i \in 1..Len(d.fired) : d.fired[i].global,
                             payload |-> \E i \in 1..Len(d.fired) : d.fired[i].payload,
                             raised |-> \E i \in 1..Len(d.fired) : d.fired[i].raised,
                             kept |-> (\E i \in 1..Len(d.fired) : d.fired[i].raised)
                                         => /\ d.w.state[e.sender] = CONVERSATION_STATE[e.sender]
                                            /\ d.w.obj[e.sender] = CONVERSATION_OBJECT[e.sender]
                                            /\ d.w.session[e.sender] = sessions[e.sender] ]
    /\ UNCHANGED << gateVars, pc, loc, demoted, created, uploadVars, castVars, cacheVars, cleanupVars >>

Deliver(e, budget) == Dispatched(e, budget) /\ UNCHANGED ret

\* What get_permissions ends in for the sender in each channel of the join list.
GateOutcomes == { "permissions", "UserNotParticipantError" }
Perms == [ EntryIds(Val(CHANNEL_JOIN_LIST)) -> GateOutcomes ]
NoTitles == [ c \in ChannelIds |-> "title" ]

Event(sender, private, text, perm, file, titles) ==
    [ sender |-> sender, private |-> private, text |-> text, perm |-> perm,
      file |-> file, titles |-> titles, fail |-> 0 ]

\* A keyboard label or a registered command.
LabelMessage(labels, budget) ==
    \E sender \in Users, s \in labels, perm \in Perms :
        Deliver(Event(sender, TRUE, Label(s), perm, None, NoTitles), budget)

\* "/start get_<code>", with the row the code names, if any.
StartLinkMessage ==
    \E sender \in Users, perm \in Perms, file \in { None } \cup { Some(f) : f \in FileRows } :
        Deliver(Event(sender, TRUE, Text("startget", "", 0), perm, file, NoTitles), MaxEvents)

\* A string of code length, with the row it names, if any.
CodeMessage ==
    \E sender \in Users, perm \in Perms, file \in { None } \cup { Some(f) : f \in FileRows } :
        Deliver(Event(sender, TRUE, Text("code", "", 0), perm, file, NoTitles), MaxEvents)

\* A decimal user id.
UserIdMessage(budget) ==
    \E sender \in Users, n \in Users, perm \in Perms :
        Deliver(Event(sender, TRUE, Text("userid", "", n), perm, None, NoTitles), budget)

\* A channel definition or a channel's id, with the outcome of the title
\* lookups of the refresh it may cause.
ChannelMessage(budget) ==
    \E sender \in Users, k \in { "chan_payload", "chan_ref" }, c \in ChannelIds, perm \in Perms :
        \E titles \in IF CONVERSATION_STATE[sender] \in { "USER_ADD_CHANNEL", "USER_REMOVE_CHANNEL" }
                       THEN [ ChannelIds -> TitleOutcomes ] ELSE { NoTitles } :
            Deliver(Event(sender, TRUE, Text(k, "", c), perm, None, titles), budget)

\* Any other message: an unregistered slash command, the password, a long
\* text, a media message.
OtherMessage(kinds, budget) ==
    \E sender \in Users, k \in kinds, perm \in Perms :
        Deliver(Event(sender, TRUE, Text(k, "", 0), perm, None, NoTitles), budget)

\* A message in a group or channel the bot is in.
GroupMessage ==
    \E sender \in Users :
        Deliver(Event(sender, FALSE, Label("/start"), [ c \in {} |-> "permissions" ], None, NoTitles),
                MaxEvents)

\* A start of the bot over the tables an earlier run left: main() warms the
\* user-id and admin-id lists and the channel map from them, and no
\* conversation is under way. (is_superuser is set by no code of the bot;
\* the rows here have it at its default.)
Init ==
    /\ ConvQuiet
    /\ dbUser \in [ Users -> { None } \cup { Some(UserRow(FALSE, st)) : st \in BOOLEAN } ]
    /\ ~IsNone(dbUser[ADMIN_MASTER]) => ~Val(dbUser[ADMIN_MASTER]).is_staff
    /\ redisUsers = Some(DbUserIds)
    /\ redisAdmins = Some(DbAdminIds)
    /\ redisDetail = [ u \in Users |-> None ]
    /\ demoted = {}
    /\ created = {}
    /\ InitChannels
    /\ Cardinality(dbChannels) <= 1
    /\ ProcsQuiet
    /\ gateRun = NoGateRun

\* Every kind of message, from every user.
Next ==
    \/ LabelMessage(USER_COMMANDS \cup UploadButtons, MaxEvents)
    \/ StartLinkMessage
    \/ CodeMessage
    \/ UserIdMessage(MaxEvents)
    \/ ChannelMessage(MaxEvents)
    \/ OtherMessage({ "slash", "password", "long", "media" }, MaxEvents)
    \/ GroupMessage

Spec == Init /\ [][Next]_vars

\* The messages of the admin keyboards and their payloads, from every user.
AdminLabels ==
    { "/admin", "forced_join", "forward_all", "message_all", "unset_admin", "admin_list",
      "set_admin", "statistics", "backup", "channel_list", "add_channel", "remove_channel",
      "back" }

NextAdminPanel ==
    \/ LabelMessage(AdminLabels, MaxAdminEvents)
    \/ UserIdMessage(MaxAdminEvents)
    \/ ChannelMessage(MaxAdminEvents)
    \/ OtherMessage({ "long" }, MaxAdminEvents)

SpecAdminPanel == Init /\ [][NextAdminPanel]_vars

\* ----------------------------------------------------------- C9, C10
\* C9: no admin action (a channel, admin-list, broadcast, backup or
\* statistics action, or the opening of the admin or join panel) is carried
\* out for an event whose sender does not pass the admin predicate.
C9_AdminActionsOnlyForAdmins ==
    lastEvent.seen => (lastEvent.acts # {} => lastEvent.admin)

FailingMessage ==
    \E sender \in Users, perm \in Perms, fail \in 1..MaxFail,
       text \in { Label("upload_file"), Text("startget", "", 0), Text("long", "", 0) } :
        \E file \in IF text.k = "startget" THEN { None } \cup { Some(f) : f \in FileRows }
                     ELSE { None } :
            Deliver([Event(sender, TRUE, text, perm, file, NoTitles) EXCEPT !.fail = fail],
                    MaxFailureEvents)

\* The messages that lead to the states of the three handlers, none failing.
NextFailures ==
    \/ LabelMessage({ "/admin", "forward_all", "message_all", "upload_file", "set_caption" },
                    MaxFailureEvents)
    \/ \E sender \in Users, perm \in Perms :
           Deliver(Event(sender, TRUE, Text("media", "", 0), perm, None, NoTitles),
                   MaxFailureEvents)
    \/ FailingMessage

SpecFailures == Init /\ [][NextFailures]_vars

\* C13: if a handler raised partway through an event, the sender's
\* conversation state, context and upload session after the event are what
\* they were before it.
C13_FailedEventKeepsState ==
    (lastEvent.seen /\ lastEvent.raised) => lastEvent.kept

\* The states whose handler reads the remembered file.
ContextStates ==
    { "USER_SEND_PASSWORD_FOR_GET_FILE", "USER_SEND_TEXT_FOR_SET_CAPTION",
      "USER_SEND_TEXT_FOR_SET_PASSWORD" }

\* C12: a user's conversation context is non-empty only while the user's
\* conversation state is one that carries it.
C12_ContextOnlyInItsStates ==
    \A u \in Users :
        ~IsNone(CONVERSATION_OBJECT[u]) => CONVERSATION_STATE[u] \in ContextStates

\* C10: for every private inbound event at most one handler performs an effect.
C10_AtMostOneHandlerActs ==
    lastEvent.seen => lastEvent.effects <= 1

\* ------------------------------------------------------ upload sessions
Sizes == 1..MaxSize
Codes == 1..MaxCodes

\* An item of a session, as far as the file rows go.
UploadedFile(message_id, size) == [ message_id |-> message_id, size |-> size ]
EmptySession == [ files |-> << >>, total_size |-> 0 ]

\* UploadSession.add_file(message_id, media_type, size, file_id, access_hash,
\* file_reference, file_name=None) called with the positional arguments
\* `args`: a call that leaves a required parameter without a value raises
\* TypeError before the body runs.
session_add_file(session, args) ==
    IF Len(args) < 6 THEN [ session |-> session, raised |-> "TypeError" ]
    ELSE [ session |-> [ files |-> Append(session.files, UploadedFile(args[1], args[3])),
                         total_size |-> session.total_size + args[3] ],
           raised |-> "" ]

\* UploadSessionManager.add_file(user_id, message_id, media_type, size,
\* file_name=None): session.add_file(message_id, media_type, size, file_name)
manager_add_file(m, u, message_id, size) ==
    IF IsNone(m[u]) THEN [ m |-> m, raised |-> "ValueError" ]
    ELSE LET r == session_add_file(Val(m[u]), << message_id, "photo", size, None >>)
         IN  [ m |-> [m EXCEPT ![u] = Some(r.session)], raised |-> r.raised ]

\* A variant of UploadSession.clear that keeps the items, which C18 must tell
\* apart from the code's.
clear_not(session) == session

\* UploadSession.clear
clear(session) == [ files |-> << >>, total_size |-> 0 ]

\* UploadSessionManager.start_session
start_session(m, u) ==
    IF ~IsNone(m[u]) THEN [m EXCEPT ![u] = Some(clear(Val(m[u])))]
    ELSE [m EXCEPT ![u] = Some(EmptySession)]

\* UploadSessionManager.clear_session, an alias of end_session
clear_session(m, u) == [m EXCEPT ![u] = None]

\* What the dispatch specifications keep of a session.
SessionKind(o) ==
    IF IsNone(o) THEN "none" ELSE IF Val(o).files = << >> THEN "empty" ELSE "files"

\* A variant of the code of a row that leaves the part suffix out, which C14
\* must tell apart from the code's.
FileCodeBare(code, idx) == << code >>

\* code if idx == 0 else f"{code}_part{idx}"
FileCode(code, idx) == IF idx = 0 THEN << code >> ELSE << code, "_part", idx >>

\* generate_random_text(20) if len(session.files) > 1 else None
AlbumId(n, album) == IF n > 1 THEN Some(album) ELSE None

\* file_dict of the item at index idx, as File.create stores it: password
\* and caption null, count 0
FileDict(item, u, code, album, n, idx) ==
    [ code |-> FileCode(code, idx), message_id |-> item.message_id, owner_id |-> u,
      size |-> item.size, album_id |-> AlbumId(n, album), album_order |-> idx,
      password |-> None, caption |-> None, count |-> 0 ]

StoredCodes == { dbFiles[i].code : i \in 1..Len(dbFiles) }

\* The 1-based position of the first item whose create_file_from_db raises,
\* 0 when every save succeeds: the save `failAt` picks, or an earlier one
\* whose code is already that of a row (File.code is unique).
FirstFailure(items, code, failAt) ==
    LET bad == { i \in 1..Len(items) : i = failAt \/ FileCode(code, i - 1) \in StoredCodes }
    IN  IF bad = {} THEN 0 ELSE CHOOSE i \in bad : \A j \in bad : i <= j

\* A variant of the save loop that goes on after a failed save, which C16
\* must tell apart from the code's.
saved_despite_failure(n, k) == 1..n \ { k }

\* A variant of the save loop that skips the items up to the failed one and
\* saves the rest, which C25 must tell apart from the code's.
saved_after_failure(n, k) == IF k = 0 THEN 1..n ELSE (k + 1)..n

\* The positions of the items the loop saved: all of them, or those before
\* the first failure, at which `raise` leaves the loop.
saved_positions(n, k) == IF k = 0 THEN 1..n ELSE 1..(k - 1)

RECURSIVE RowsOf(_, _, _, _, _, _)
RowsOf(items, u, code, album, keep, i) ==
    IF i > Len(items) THEN << >>
    ELSE (IF i \in keep THEN << FileDict(items[i], u, code, album, Len(items), i - 1) >>
          ELSE << >>) \o RowsOf(items, u, code, album, keep, i + 1)

\* The part of a handler that every upload action shares: the user row that
\* ensure_user_record creates, and the summary of the sessions.
UploadFrame(w) ==
    /\ dbUser' = w.dbUser
    /\ redisUsers' = w.redisUsers
    /\ redisDetail' = w.redisDetail
    /\ sessions' = [ u \in Users |-> SessionKind(uploads'[u]) ]
    /\ UNCHANGED << CONVERSATION_OBJECT, lastEvent, delivered, castVars, cacheVars, cleanupVars,
                 gateVars, chanVars,
                    redisAdmins, demoted, created, pc, loc >>

\* handle_upload_prompt with the membership gate passing.
UploadPrompt(u) ==
    /\ uploads' = start_session(uploads, u)
    /\ added' = [added EXCEPT ![u] = [ items |-> << >>,
                                        dropped |-> IF IsNone(uploads[u]) THEN 0
                                                    ELSE Len(Val(uploads[u]).files) ]]
    /\ CONVERSATION_STATE' = [CONVERSATION_STATE EXCEPT ![u] = "USER_UPLOAD_FILE"]
    /\ ret' = [ call |-> "start_session", u |-> u, had |-> ~IsNone(uploads[u]) ]
    /\ UNCHANGED << dbFiles, storage, forwarded >>
    /\ UploadFrame(ensure_user_record(World, u))

\* handle_upload_file for a media message: forwarded to the storage channel,
\* then added to the session; a forward that raises adds nothing.
UploadFile(u, size, ok) ==
    /\ CONVERSATION_STATE[u] = "USER_UPLOAD_FILE"
    /\ forwarded < MaxUploads
    /\ IF IsNone(uploads[u]) \/ ~ok
       THEN /\ UNCHANGED << uploads, added, storage, forwarded >>
            /\ ret' = [ call |-> "upload", u |-> u, raised |-> ~ok ]
       ELSE LET message_id == forwarded + 1
                r == session_add_file(Val(uploads[u]),
                                      << message_id, "photo", size, message_id, 0, "ref" >>)
            IN  /\ forwarded' = message_id
                /\ storage' = storage \cup { message_id }
                /\ uploads' = [uploads EXCEPT ![u] = Some(r.session)]
                /\ added' = [added EXCEPT ![u].items =
                                 IF r.raised = "" THEN Append(@, UploadedFile(message_id, size))
                                 ELSE @]
                /\ ret' = [ call |-> "upload", u |-> u, raised |-> r.raised # "" ]
    /\ UNCHANGED << dbFiles, CONVERSATION_STATE >>
    /\ UploadFrame(World)

\* UploadSessionManager.add_file, called as its docstring shows.
ManagerAddFile(u, size) ==
    /\ LET r == manager_add_file(uploads, u, 0, size)
       IN  /\ uploads' = r.m
           /\ ret' = [ call |-> "add_file", u |-> u, before |-> uploads[u], size |-> size,
                       raised |-> r.raised ]
    /\ UNCHANGED << added, dbFiles, storage, forwarded, CONVERSATION_STATE >>
    /\ UploadFrame(World)

\* UploadSession.get_summary: the dictionary it returns (every item of the
\* model is a photo).
get_summary(session) ==
    [ photos |-> Len(session.files), videos |-> 0, voices |-> 0, documents |-> 0,
      total_count |-> Len(session.files), total_size_mb |-> session.total_size ]

\* The keys handle_finish_upload reads from the summary for the message.
SummaryKeysRead == { "photos", "videos", "voices", "audios", "documents", "total_size_mb" }

\* upload_session_summary_text.format(summary[...], ..., BOT_USERNAME, code):
\* the text, or nothing when a subscript raises KeyError.
format_summary(summary, code) ==
    IF SummaryKeysRead \subseteq DOMAIN summary
    THEN Some([ counts |-> summary, code |-> code ])
    ELSE None

\* handle_finish_upload: nothing to save, or the save loop, the summary and
\* its message; an exception in any of these leaves for the handler's except
\* clause, which sends the final-storage error message.
FinishUpload(u, code, album, failAt) ==
    /\ CONVERSATION_STATE[u] = "USER_UPLOAD_FILE"
    /\ CONVERSATION_STATE' = [CONVERSATION_STATE EXCEPT ![u] = "None"]
    /\ IF IsNone(uploads[u]) \/ Val(uploads[u]).files = << >>
       THEN /\ ret' = [ call |-> "finish", u |-> u, items |-> << >>, failed |-> 0,
                        code |-> code, before |-> Len(dbFiles), notified |-> FALSE,
                        summary |-> None, since |-> added[u] ]
            /\ UNCHANGED << uploads, dbFiles >>
            /\ UploadFrame(World)
       ELSE LET items == Val(uploads[u]).files
                k == FirstFailure(items, code, failAt)
                text == format_summary(get_summary(Val(uploads[u])), code)
                raised == k # 0 \/ IsNone(text)
            IN  /\ dbFiles' = dbFiles \o RowsOf(items, u, code, album,
                                               saved_positions(Len(items), k), 1)
                /\ uploads' = clear_session(uploads, u)
                /\ ret' = [ call |-> "finish", u |-> u, items |-> items, failed |-> k,
                            code |-> code, before |-> Len(dbFiles), notified |-> raised,
                            summary |-> IF raised THEN None ELSE text,
                            since |-> added[u] ]
                /\ UploadFrame(ensure_user_record(World, u))
    /\ UNCHANGED << added, storage, forwarded >>

\* handle_cancel_upload: the session is cleared; the messages stay in the
\* storage channel.
CancelUpload(u) ==
    /\ CONVERSATION_STATE[u] = "USER_UPLOAD_FILE"
    /\ CONVERSATION_STATE' = [CONVERSATION_STATE EXCEPT ![u] = "None"]
    /\ IF IsNone(uploads[u]) \/ Val(uploads[u]).files = << >>
       THEN /\ ret' = [ call |-> "cancel", u |-> u, items |-> << >>, before |-> Len(dbFiles) ]
            /\ UNCHANGED uploads
       ELSE /\ ret' = [ call |-> "cancel", u |-> u, items |-> Val(uploads[u]).files,
                        before |-> Len(dbFiles) ]
            /\ uploads' = clear_session(uploads, u)
    /\ UNCHANGED << added, dbFiles, storage, forwarded >>
    /\ UploadFrame(World)

\* handle_start while uploading: reset_context, the session is left alone.
LeaveUpload(u) ==
    /\ CONVERSATION_STATE[u] = "USER_UPLOAD_FILE"
    /\ CONVERSATION_STATE' = [CONVERSATION_STATE EXCEPT ![u] = "None"]
    /\ ret' = [ call |-> "start", u |-> u ]
    /\ UNCHANGED << uploads, added, dbFiles, storage, forwarded >>
    /\ UploadFrame(ensure_user_record(World, u))

InitUpload ==
    /\ ConvQuiet
    /\ UsersQuiet
    /\ ProcsQuiet
    /\ ChannelsQuiet
    /\ gateRun = NoGateRun

NextUpload ==
    \E u \in Users :
        \/ UploadPrompt(u)
        \/ \E size \in Sizes, ok \in BOOLEAN : UploadFile(u, size, ok)
        \/ \E size \in Sizes : ManagerAddFile(u, size)
        \/ \E code \in Codes, album \in Codes, failAt \in 0..MaxUploads :
               FinishUpload(u, code, album, failAt)
        \/ CancelUpload(u)
        \/ LeaveUpload(u)

SpecUpload == InitUpload /\ [][NextUpload]_vars

\* The rows the latest finish or cancel added to the file table.
NewRows == SubSeq(dbFiles, ret.before + 1, Len(dbFiles))

RECURSIVE SumOfSizes(_)
SumOfSizes(files) ==
    IF files = << >> THEN 0 ELSE Head(files).size + SumOfSizes(Tail(files))

\* C14: a finish over N >= 1 items whose saves all succeed persists N rows:
\* row 0 has the bare code, row i >= 1 the code "<code>_part<i>", album_order
\* is the index, in insertion order; album_id is empty for N = 1 and one and
\* the same generated id for N > 1.
C14_FinishPersistsNRows ==
    (ret.call = "finish" /\ ret.failed = 0 /\ Len(ret.items) >= 1) =>
        LET n == Len(ret.items)
        IN  /\ Len(NewRows) = n
            /\ \A i \in 1..n :
                   /\ NewRows[i].code = (IF i = 1 THEN << ret.code >>
                                         ELSE << ret.code, "_part", i - 1 >>)
                   /\ NewRows[i].album_order = i - 1
                   /\ NewRows[i].message_id = ret.items[i].message_id
                   /\ NewRows[i].owner_id = ret.u
            /\ n = 1 => IsNone(NewRows[1].album_id)
            /\ n > 1 => /\ ~IsNone(NewRows[1].album_id)
                        /\ \A i \in 1..n : NewRows[i].album_id = NewRows[1].album_id

\* A finish of two or more items into a table that already holds rows.
C14_Witness ==
    /\ ret.call = "finish" /\ ret.failed = 0
    /\ Len(ret.items) >= 2
    /\ ret.before >= 1

\* C15: after a finish in which a save failed, the upload session still holds
\* all of its items.
C15_FailedFinishKeepsItems ==
    (ret.call = "finish" /\ ret.failed > 0) =>
        /\ ~IsNone(uploads[ret.u])
        /\ Val(uploads[ret.u]).files = ret.items

\* C16: if the save of the item at index k fails, the rows of items 0..k-1
\* and no others are in the store, the user was sent the error notification,
\* has no upload session and is idle.
C16_FailedFinishAbortsAndClears ==
    (ret.call = "finish" /\ ret.failed > 0) =>
        /\ Len(NewRows) = ret.failed - 1
        /\ \A i \in 1..Len(NewRows) : NewRows[i].message_id = ret.items[i].message_id
        /\ ret.notified
        /\ IsNone(uploads[ret.u])
        /\ CONVERSATION_STATE[ret.u] = "None"

\* C28: after a finish in which every item was persisted, the user has been
\* sent the upload summary carrying the share code and has not been sent the
\* final-storage error message.
C28_PersistedFinishSendsSummary ==
    (ret.call = "finish" /\ ret.items # << >> /\ ret.failed = 0) =>
        /\ ~IsNone(ret.summary)
        /\ Val(ret.summary).code = ret.code
        /\ ~ret.notified

\* A failure at an item that has items before it and after it.
C16_Witness ==
    /\ ret.call = "finish"
    /\ ret.failed = 2
    /\ Len(ret.items) = 3

\* C17: UploadSessionManager.add_file raises the no-session error and changes
\* nothing for a user without a session; for a user with one it appends one
\* item at the end and adds its size to total_size; total_size is always the
\* sum of the sizes of the items.
C17_ManagerAddFileAppends ==
    /\ ret.call = "add_file" =>
           IF IsNone(ret.before)
           THEN ret.raised = "ValueError" /\ uploads[ret.u] = ret.before
           ELSE /\ ret.raised = ""
                /\ ~IsNone(uploads[ret.u])
                /\ Len(Val(uploads[ret.u]).files) = Len(Val(ret.before).files) + 1
                /\ SubSeq(Val(uploads[ret.u]).files, 1, Len(Val(ret.before).files))
                       = Val(ret.before).files
                /\ Val(uploads[ret.u]).total_size = Val(ret.before).total_size + ret.size
    /\ \A u \in Users :
           ~IsNone(uploads[u]) => Val(uploads[u]).total_size = SumOfSizes(Val(uploads[u]).files)

\* C18: after start_session the user has one session, empty and of size 0;
\* a finish whose saves succeed persists exactly the items added since the
\* latest start_session, in order.
C18_StartSessionDiscardsOldItems ==
    /\ ret.call = "start_session" =>
           /\ ~IsNone(uploads[ret.u])
           /\ Val(uploads[ret.u]) = EmptySession
    /\ (ret.call = "finish" /\ ret.failed = 0) =>
           /\ Len(NewRows) = Len(ret.since.items)
           /\ \A i \in 1..Len(NewRows) :
                  /\ NewRows[i].message_id = ret.since.items[i].message_id
                  /\ NewRows[i].size = ret.since.items[i].size

\* A finish of a session that was started over while it held items.
C18_Witness ==
    /\ ret.call = "finish" /\ ret.failed = 0
    /\ Len(ret.items) >= 1
    /\ ret.since.dropped >= 1

\* C19: after a cancel of a session that holds items, none of their messages
\* is left in the storage channel, no row was persisted, and the user has no
\* upload session and is idle.
C19_CancelDeletesBackups ==
    (ret.call = "cancel" /\ ret.items # << >>) =>
        /\ \A i \in 1..Len(ret.items) : ret.items[i].message_id \notin storage
        /\ NewRows = << >>
        /\ IsNone(uploads[ret.u])
        /\ CONVERSATION_STATE[ret.u] = "None"

\* ------------------------------------------------- broadcast_to_users
\* max_concurrent of broadcast_to_users, which its callers leave at the default.
max_concurrent == 20

Recipients == 1..MaxRecipients

\* A variant of the counting of send_with_limit that counts a failed send as
\* a success, which C20 must tell apart from the code's.
counted_all_success(c, failed) == [c EXCEPT !.success_count = @ + 1]

\* try: await send_callback(...); success_count += 1
\* except Exception: failed_count += 1
counted(c, failed) ==
    IF failed THEN [c EXCEPT !.failed_count = @ + 1] ELSE [c EXCEPT !.success_count = @ + 1]

CastFrame ==
    UNCHANGED << gateVars, chanVars, userVars, procVars, CONVERSATION_STATE,
                 CONVERSATION_OBJECT, sessions, lastEvent, delivered, uploadVars, cacheVars,
                 cleanupVars >>

\* A semaphore that never blocks, which C21 must tell apart from
\* asyncio.Semaphore.
locked_never(c) == FALSE

\* asyncio.Semaphore.locked(): no permit is left, so `async with semaphore`
\* waits.
locked(c) == c.permits <= 0

\* broadcast_to_users(client, users, send_callback, max_concurrent=limit)
\* over the first m recipients, of which those in `fails` make
\* send_callback raise: semaphore = asyncio.Semaphore(limit), the tasks are
\* created and gathered.
broadcast_to_users(m, fails, limit) ==
    /\ cast.phase = "none"
    /\ cast' = [ phase |-> "running", m |-> m, fails |-> fails,
                 task |-> [ i \in 1..m |-> "created" ],
                 calls |-> [ i \in 1..m |-> 0 ],
                 limit |-> limit,
                 permits |-> limit,
                 success_count |-> 0, failed_count |-> 0 ]
    /\ CastFrame

\* The call of the handlers, which leave max_concurrent at its default.
BroadcastStart(m, fails) == broadcast_to_users(m, fails, max_concurrent)

\* send_with_limit: async with semaphore
CastAcquire(i) ==
    /\ cast.phase = "running"
    /\ cast.task[i] = "created"
    /\ ~locked(cast)
    /\ cast' = [cast EXCEPT !.task[i] = "sending", !.permits = @ - 1]
    /\ CastFrame

\* send_with_limit: the send action returns or raises, and is counted.
CastSend(i) ==
    /\ cast.phase = "running"
    /\ cast.task[i] = "sending"
    /\ cast' = [counted(cast, i \in cast.fails) EXCEPT !.task[i] = "sleeping",
                                                       !.calls[i] = @ + 1]
    /\ CastFrame

\* send_with_limit: asyncio.sleep(0.05) ends, the semaphore is released.
CastRelease(i) ==
    /\ cast.phase = "running"
    /\ cast.task[i] = "sleeping"
    /\ cast' = [cast EXCEPT !.task[i] = "done", !.permits = @ + 1]
    /\ CastFrame

\* gather returns; return success_count, failed_count
CastReturn ==
    /\ cast.phase = "running"
    /\ \A i \in 1..cast.m : cast.task[i] = "done"
    /\ cast' = [cast EXCEPT !.phase = "returned"]
    /\ CastFrame

InitBroadcast ==
    /\ ConvQuiet
    /\ UsersQuiet
    /\ ProcsQuiet
    /\ ChannelsQuiet
    /\ gateRun = NoGateRun

NextBroadcast ==
    \/ \E m \in 0..MaxRecipients : \E fails \in SUBSET (1..m) : BroadcastStart(m, fails)
    \/ \E i \in Recipients :
           /\ cast.phase = "running"
           /\ i <= cast.m
           /\ \/ CastAcquire(i)
              \/ CastSend(i)
              \/ CastRelease(i)
    \/ CastReturn

SpecBroadcast == InitBroadcast /\ [][NextBroadcast]_vars

\* C20: broadcast_to_users over M recipients of which F fail invokes the
\* send action once per recipient and returns success = M - F, failed = F.
C20_BroadcastCountsEveryRecipient ==
    /\ cast.phase \in { "running", "returned" } => \A i \in 1..cast.m : cast.calls[i] <= 1
    /\ cast.phase = "returned" =>
           /\ \A i \in 1..cast.m : cast.calls[i] = 1
           /\ cast.success_count = cast.m - Cardinality(cast.fails)
           /\ cast.failed_count = Cardinality(cast.fails)

\* A broadcast that returned with some sends failed and some not.
C20_Witness ==
    /\ cast.phase = "returned"
    /\ cast.fails # {}
    /\ Cardinality(cast.fails) < cast.m

\* ------------------------------------- the concurrency limit of a broadcast
\* The largest max_concurrent a caller passes in the runs below.
MaxLimit == 2

NextBroadcastLimit ==
    \/ \E m \in 0..MaxRecipients : \E fails \in SUBSET (1..m) :
           \E limit \in 1..MaxLimit : broadcast_to_users(m, fails, limit)
    \/ \E i \in Recipients :
           /\ cast.phase = "running"
           /\ i <= cast.m
           /\ \/ CastAcquire(i)
              \/ CastSend(i)
              \/ CastRelease(i)
    \/ CastReturn

SpecBroadcastLimit == InitBroadcast /\ [][NextBroadcastLimit]_vars

\* The tasks whose send action has been entered and has not returned.
InFlight == { i \in 1..cast.m : cast.task[i] = "sending" }

\* The tasks inside `async with semaphore`.
Holding == { i \in 1..cast.m : cast.task[i] \in { "sending", "sleeping" } }

\* C21: during a broadcast the number of send actions in flight at the same
\* time never exceeds max_concurrent, whatever the number of recipients and
\* the interleaving of the send tasks.
C21_SendsInFlightBounded ==
    cast.phase = "running" =>
        /\ Cardinality(InFlight) <= cast.limit
        /\ Cardinality(Holding) <= cast.limit

\* The limit is reached while a further recipient waits for the semaphore.
C21_Witness ==
    /\ cast.phase = "running"
    /\ Cardinality(InFlight) = cast.limit
    /\ \E i \in 1..cast.m : cast.task[i] = "created"

\* ------------------------------------------------- file rows and delivery
\* The raw text of a message that is no command: "" (0, a message without
\* text), a word of code length (the word c is also the bare code c), or a
\* text longer than a code.
LongText == MaxCodes + 1
RawTexts == 0..LongText

Payload(t) ==
    IF t = 0 THEN Text("media", "", 0)
    ELSE IF t \in Codes THEN Text("code", "", t)
    ELSE Text("long", "", 0)

\* bool(s) of an optional string
Truthy(o) == ~IsNone(o) /\ Val(o) # 0

\* queryset.first()
first(rows) == IF rows = << >> THEN None ELSE Some(rows[1])

\* A variant of the lookup that leaves the owner filter out, which C26 must
\* tell apart from the code's.
read_file_row_any_owner(rows, code, userid) ==
    first(SelectSeq(rows, LAMBDA r : r.code = code))

\* File.filter(code=code).first(), or with owner_id=userid when it is given
read_file_row(rows, code, userid) ==
    first(SelectSeq(rows, LAMBDA r : r.code = code
                                      /\ (IsNone(userid) \/ r.owner_id = Val(userid))))

\* Model.save() of an object that was read from the table: every column of
\* the row with its primary key is set to the object's value; no row is
\* written when that row is gone. (No message is saved twice, so message_id
\* tells the rows apart as the primary key does.)
save(rows, obj) ==
    [ i \in 1..Len(rows) |->
        IF rows[i].message_id = obj.message_id THEN obj ELSE rows[i] ]

\* order_by("album_order")
order_by_album_order(rows) ==
    [ i \in 1..Len(rows) |->
        CHOOSE r \in Range(rows) :
            Cardinality({ j \in 1..Len(rows) :
                            \/ rows[j].album_order < r.album_order
                            \/ rows[j].album_order = r.album_order
                               /\ j < (CHOOSE k \in 1..Len(rows) : rows[k] = r) }) = i - 1 ]

\* A variant of the album read that returns the named row alone, which C23
\* must tell apart from the code's.
album_files_named_only(rows, file) == << file >>

\* File.filter(album_id=file.album_id).order_by("album_order")
album_files(rows, file) ==
    order_by_album_order(SelectSeq(rows, LAMBDA r : r.album_id = file.album_id))

\* A variant of delete_file_from_db that deletes the named row only, which
\* C24 must tell apart from the code's.
delete_named_row_only(rows, userid, code) ==
    LET file == read_file_row(rows, code, Some(userid))
    IN  IF IsNone(file) THEN [ rows |-> rows, deleted |-> FALSE ]
        ELSE [ rows |-> SelectSeq(rows, LAMBDA r : ~(r.code = code /\ r.owner_id = userid)),
               deleted |-> TRUE ]

\* delete_file_from_db(userid, code)
delete_file_from_db(rows, userid, code) ==
    LET file == read_file_row(rows, code, Some(userid))
    IN  IF IsNone(file) THEN [ rows |-> rows, deleted |-> FALSE ]
        ELSE IF ~IsNone(Val(file).album_id)
        THEN LET kept == SelectSeq(rows, LAMBDA r : ~(r.album_id = Val(file).album_id
                                                     /\ r.owner_id = userid))
             IN  [ rows |-> kept, deleted |-> Len(kept) < Len(rows) ]
        ELSE LET kept == SelectSeq(rows, LAMBDA r : ~(r.code = code /\ r.owner_id = userid))
             IN  [ rows |-> kept, deleted |-> Len(kept) < Len(rows) ]

\* ------------------------------------------- the file handlers, with the table
\* The most messages a behaviour of the file specifications delivers.
MaxFileEvents == 6

\* The states whose handler takes the text as a file code.
CodeStates ==
    { "USER_DELETE_FILE", "USER_SEND_ID_FOR_SET_CAPTION", "USER_SEND_ID_FOR_UNSET_CAPTION",
      "USER_SEND_ID_FOR_SET_PASSWORD", "USER_SEND_ID_FOR_UNSET_PASSWORD",
      "USER_SEND_ID_FILE_FOR_TRACKING" }

\* The states whose handler writes the text to the file in context.
TextStates == { "USER_SEND_TEXT_FOR_SET_CAPTION", "USER_SEND_TEXT_FOR_SET_PASSWORD" }

\* What a file action leaves alone: the gate passes (no channel is
\* required) and every sender has a user row.
FilesFrame ==
    UNCHANGED << gateVars, chanVars, userVars, sessions, lastEvent, uploads, added, storage,
                 forwarded, castVars, cacheVars, cleanupVars >>

\* The record of a handler run: the message, what the sender's state, the
\* context and the table were before it, the answer it sent and the items it
\* delivered, and the finish that came right before it, if one did.
Ran0(call, u, t, sent) ==
    [ call |-> call, u |-> u, text |-> t, state |-> CONVERSATION_STATE[u],
      obj |-> CONVERSATION_OBJECT[u], files |-> dbFiles, sent |-> sent, items |-> << >>,
      via |-> "", stored |-> None,
      prior |-> IF ret.call = "finish" THEN ret ELSE NoRet ]

\* A handler that ends without a delivery, leaving world w and table rows.
FilesEnd(u, w, rows, rec) ==
    /\ CONVERSATION_STATE' = w.state
    /\ CONVERSATION_OBJECT' = w.obj
    /\ dbFiles' = rows
    /\ ret' = rec
    /\ delivered' = delivered + 1
    /\ UNCHANGED << pc, loc >>
    /\ FilesFrame

\* send_file(client, chat_id, file) up to its first send: the rows of the
\* album are read, or the input media is built from `file`; an album of
\* which no row is left raises ValueError. The handler resumes in FilesSent.
FilesSend(u, w, file, via, rec) ==
    LET album == IF ~IsNone(file.album_id) THEN album_files(dbFiles, file) ELSE << >>
    IN  IF ~IsNone(file.album_id) /\ album = << >>
        THEN FilesEnd(u, w, dbFiles, [rec EXCEPT !.sent = "raised"])
        ELSE /\ pc' = [pc EXCEPT ![u] = "send_file"]
             /\ loc' = [loc EXCEPT ![u] = [ file |-> file, album |-> album, rec |-> rec,
                                            via |-> via ]]
             /\ CONVERSATION_STATE' = w.state
             /\ CONVERSATION_OBJECT' = w.obj
             /\ ret' = [rec EXCEPT !.sent = "sending"]
             /\ delivered' = delivered + 1
             /\ UNCHANGED dbFiles
             /\ FilesFrame

RECURSIVE count_album(_, _, _)
\* for album_file in album_files: album_file.count += 1; await album_file.save()
count_album(rows, album, i) ==
    IF i > Len(album) THEN rows
    ELSE count_album(save(rows, [album[i] EXCEPT !.count = @ + 1]), album, i + 1)

\* send_file from its sends on: the messages go out, the download counts are
\* saved; handle_passworded_file then resets the context and stops. The
\* records the handlers append to LIST_VIDEO afterwards are followed in
\* RecordPreviews; the file specifications leave the list out.
FilesSent(u) ==
    /\ pc[u] = "send_file"
    /\ LET l == loc[u]
           w == IF l.via = "password" THEN reset_context(World, u) ELSE World
       IN  /\ dbFiles' = IF ~IsNone(l.file.album_id) THEN count_album(dbFiles, l.album, 1)
                         ELSE save(dbFiles, [l.file EXCEPT !.count = @ + 1])
           /\ ret' = [l.rec EXCEPT !.call = "send_file", !.via = l.via, !.sent = "file",
                                   !.files = dbFiles,
                                   !.items = IF ~IsNone(l.file.album_id)
                                             THEN [ i \in 1..Len(l.album) |-> l.album[i].message_id ]
                                             ELSE << l.file.message_id >>]
           /\ CONVERSATION_STATE' = w.state
           /\ CONVERSATION_OBJECT' = w.obj
    /\ pc' = [pc EXCEPT ![u] = "idle"]
    /\ loc' = [loc EXCEPT ![u] = NoLoc]
    /\ UNCHANGED delivered
    /\ FilesFrame

\* A message the sender's handler can take: no handler of theirs is waiting
\* for a send, and the budget is not used up.
FilesIdle(u) == pc[u] = "idle" /\ delivered < MaxFileEvents

\* handle_start
FilesStart(u) ==
    /\ FilesIdle(u)
    /\ FilesEnd(u, reset_context(World, u), dbFiles, Ran0("handle_start", u, 0, "menu"))

\* The prompts of the user keyboard for delete, caption, password, tracking.
FilesPrompt(u, target) ==
    /\ FilesIdle(u)
    /\ FilesEnd(u, set_state(World, u, target), dbFiles, Ran0("prompt", u, 0, "prompt"))

\* handle_get_file for "/start get_<c>"
FilesGet(u, c) ==
    /\ FilesIdle(u)
    /\ LET w1 == reset_context(World, u)
           file == read_file_row(dbFiles, FileCode(c, 0), None)
           rec == [Ran0("handle_get_file", u, c, "") EXCEPT !.stored = file]
       IN  IF IsNone(file) THEN FilesEnd(u, w1, dbFiles, [rec EXCEPT !.sent = "not_found"])
           ELSE IF ~Truthy(Val(file).password) \/ Val(file).owner_id = u
           THEN FilesSend(u, w1, Val(file), "get", rec)
           ELSE FilesEnd(u, set_state([w1 EXCEPT !.obj[u] = file], u,
                                      "USER_SEND_PASSWORD_FOR_GET_FILE"),
                         dbFiles, [rec EXCEPT !.sent = "password_prompt"])

\* A variant of the password check that accepts every answer, which C22
\* must tell apart from the code's.
password_matches_any(file, t) == TRUE

\* file.password == (event.raw_text or "")
password_matches(file, t) == file.password = Some(t)

\* handle_passworded_file for a message that is no command; `stored` is the
\* row of the file in context as the table has it now.
FilesPassword(u, t) ==
    /\ FilesIdle(u)
    /\ CONVERSATION_STATE[u] = "USER_SEND_PASSWORD_FOR_GET_FILE"
    /\ LET file == CONVERSATION_OBJECT[u]
           rec == [Ran0("handle_passworded_file", u, t, "") EXCEPT
                       !.stored = IF IsNone(file) THEN None
                                  ELSE first(SelectSeq(dbFiles, LAMBDA r :
                                                 r.message_id = Val(file).message_id))]
       IN  IF IsNone(file) THEN FilesEnd(u, reset_context(World, u), dbFiles, rec)
           ELSE IF password_matches(Val(file), t)
           THEN FilesSend(u, World, Val(file), "password", rec)
           ELSE FilesEnd(u, World, dbFiles, [rec EXCEPT !.sent = "wrong_password"])

\* The handlers of the code states for a message that is no command:
\* handle_delete_file, handle_unset_caption, handle_unset_password,
\* handle_get_caption_object, handle_get_password_object and
\* handle_tracking_request.
FilesCode(u, t) ==
    /\ FilesIdle(u)
    /\ CONVERSATION_STATE[u] \in CodeStates
    /\ LET st == CONVERSATION_STATE[u]
           code == FileCode(t, 0)
           file == read_file_row(dbFiles, code, Some(u))
           rec == Ran0(st, u, t, "")
           done == reset_context(World, u)
       IN  IF ~is_valid_code(Payload(t))
           THEN FilesEnd(u, World, dbFiles, [rec EXCEPT !.sent = "retry_invalid"])
           ELSE IF st = "USER_DELETE_FILE"
           THEN LET d == delete_file_from_db(dbFiles, u, code)
                IN  IF d.deleted
                    THEN FilesEnd(u, done, d.rows, [rec EXCEPT !.sent = "deleted"])
                    ELSE FilesEnd(u, World, dbFiles, [rec EXCEPT !.sent = "retry_not_found"])
           ELSE IF IsNone(file)
           THEN FilesEnd(u, World, dbFiles, [rec EXCEPT !.sent = "retry_not_found"])
           ELSE IF st = "USER_SEND_ID_FOR_UNSET_CAPTION"
           THEN FilesEnd(u, done, save(dbFiles, [Val(file) EXCEPT !.caption = None]),
                         [rec EXCEPT !.sent = "done"])
           ELSE IF st = "USER_SEND_ID_FOR_UNSET_PASSWORD"
           THEN FilesEnd(u, done, save(dbFiles, [Val(file) EXCEPT !.password = None]),
                         [rec EXCEPT !.sent = "done"])
           ELSE IF st = "USER_SEND_ID_FOR_SET_CAPTION"
           THEN FilesEnd(u, set_state([World EXCEPT !.obj[u] = file], u,
                                      "USER_SEND_TEXT_FOR_SET_CAPTION"),
                         dbFiles, [rec EXCEPT !.sent = "prompt"])
           ELSE IF st = "USER_SEND_ID_FOR_SET_PASSWORD"
           THEN FilesEnd(u, set_state([World EXCEPT !.obj[u] = file], u,
                                      "USER_SEND_TEXT_FOR_SET_PASSWORD"),
                         dbFiles, [rec EXCEPT !.sent = "prompt"])
           ELSE FilesEnd(u, done, dbFiles, [rec EXCEPT !.sent = "info"])

\* handle_set_caption, handle_set_password for a message that is no command
FilesSetText(u, t) ==
    /\ FilesIdle(u)
    /\ CONVERSATION_STATE[u] \in TextStates
    /\ LET st == CONVERSATION_STATE[u]
           file == CONVERSATION_OBJECT[u]
           rec == [Ran0(st, u, t, "") EXCEPT
                       !.stored = IF IsNone(file) THEN None
                                  ELSE first(SelectSeq(dbFiles, LAMBDA r :
                                                 r.message_id = Val(file).message_id))]
       IN  IF IsNone(file) THEN FilesEnd(u, reset_context(World, u), dbFiles, rec)
           ELSE FilesEnd(u, reset_context(World, u),
                         save(dbFiles, IF st = "USER_SEND_TEXT_FOR_SET_CAPTION"
                                       THEN [Val(file) EXCEPT !.caption = Some(t)]
                                       ELSE [Val(file) EXCEPT !.password = Some(t)]),
                         [rec EXCEPT !.sent = "done"])

\* The tables a finish of one item or of two leaves, the owner having set a
\* password on the row of the bare code or not.
InitTables ==
    { [ i \in 1..n |-> [FileDict(UploadedFile(i, 1), o, 1, 1, n, i - 1) EXCEPT
                            !.password = IF i = 1 THEN pw ELSE None] ]
      : n \in 1..2, o \in Users, pw \in { None, Some(1) } }

InitFiles ==
    /\ CONVERSATION_STATE = [ u \in Users |-> "None" ]
    /\ CONVERSATION_OBJECT = [ u \in Users |-> None ]
    /\ sessions = [ u \in Users |-> "none" ]
    /\ lastEvent = NoEvent
    /\ delivered = 0
    /\ uploads = [ u \in Users |-> None ]
    /\ added = [ u \in Users |-> [ items |-> << >>, dropped |-> 0 ] ]
    /\ dbFiles \in InitTables
    /\ storage = { dbFiles[i].message_id : i \in 1..Len(dbFiles) }
    /\ forwarded = Len(dbFiles)
    /\ cast = NoCast
    /\ cache = CacheOn
    /\ CleanupQuiet
    /\ dbUser = [ u \in Users |-> Some(UserRow(FALSE, FALSE)) ]
    /\ redisUsers = None
    /\ redisAdmins = None
    /\ redisDetail = [ u \in Users |-> None ]
    /\ demoted = {}
    /\ created = {}
    /\ pc = [ u \in Users |-> "idle" ]
    /\ loc = [ u \in Users |-> NoLoc ]
    /\ ret = NoRet
    /\ ChannelsQuiet
    /\ gateRun = NoGateRun

\* A non-owner asks for the file and answers the prompt; the messages are
\* handled one after the other.
NextPassword ==
    \E u \in Users :
        \/ FilesStart(u)
        \/ \E c \in Codes : FilesGet(u, c)
        \/ \E t \in RawTexts : FilesPassword(u, t)
        \/ FilesSent(u)

SpecPassword == InitFiles /\ [][NextPassword]_vars

\* The file is protected: its password is set and not empty.
Protected(file) == ~IsNone(file) /\ Truthy(Val(file).password)

\* The sender's state, context and the table are what they were before the
\* latest handler run, and no send is under way for the sender.
FilesUntouched ==
    /\ CONVERSATION_STATE[ret.u] = ret.state
    /\ CONVERSATION_OBJECT[ret.u] = ret.obj
    /\ dbFiles = ret.files
    /\ pc[ret.u] = "idle"

\* The message ids of the rows that `file` stands for: its album's, or its own.
ItemsOf(rows, file) ==
    IF ~IsNone(file.album_id)
    THEN LET a == album_files(rows, file) IN [ i \in 1..Len(a) |-> a[i].message_id ]
    ELSE << file.message_id >>

\* C22 as stated: when a non-owner requests a password-protected file the
\* bot prompts for the password and awaits it without sending the file; in
\* that state a message equal to the password delivers the file and clears
\* state and context, and every message that differs from it delivers
\* nothing, leaves state and context unchanged and prompts again.
C22_AnyOtherMessageReprompts ==
    (/\ ret.call \in { "handle_start", "handle_get_file", "handle_passworded_file" }
     /\ ret.state = "USER_SEND_PASSWORD_FOR_GET_FILE"
     /\ ~IsNone(ret.obj)
     /\ ~(ret.call = "handle_passworded_file" /\ Val(ret.obj).password = Some(ret.text)))
        => (ret.sent = "wrong_password" /\ FilesUntouched)

\* C22, for the messages that are not commands: when a non-owner requests a
\* password-protected file the bot prompts for the password and awaits it
\* without sending the file; in that state a message equal to the password
\* delivers the file and clears state and context, and a message that is no
\* command and differs from it delivers nothing, leaves state and context
\* unchanged and prompts again.
C22_PasswordGatesDelivery ==
    /\ (ret.call = "handle_get_file" /\ Protected(ret.stored)
            /\ Val(ret.stored).owner_id # ret.u) =>
           /\ ret.sent = "password_prompt"
           /\ CONVERSATION_STATE[ret.u] = "USER_SEND_PASSWORD_FOR_GET_FILE"
           /\ CONVERSATION_OBJECT[ret.u] = ret.stored
           /\ pc[ret.u] = "idle"
           /\ dbFiles = ret.files
    /\ (ret.call = "handle_passworded_file" /\ ~IsNone(ret.obj)) =>
           IF Val(ret.obj).password = Some(ret.text)
           THEN ret.sent = "sending" /\ pc[ret.u] = "send_file"
           ELSE ret.sent = "wrong_password" /\ FilesUntouched
    /\ (ret.call = "send_file" /\ ret.via = "password") =>
           /\ ret.items = ItemsOf(ret.files, Val(ret.obj))
           /\ CONVERSATION_STATE[ret.u] = "None"
           /\ IsNone(CONVERSATION_OBJECT[ret.u])

\* An album of two delivered for its password, as the answer to the third
\* message or a later one.
C22_Witness ==
    /\ ret.call = "send_file" /\ ret.via = "password"
    /\ Len(ret.items) = 2
    /\ delivered >= 3
    /\ CONVERSATION_STATE[ret.u] = "None"

\* ------------------------------------------------ the file table over time
\* The most retrievals and deletes a behaviour of the store specification
\* makes.
MaxStoreEvents == 2

\* delete_file_from_db(u, code) for the code of a row or of none.
StoreDelete(u, code) ==
    /\ LET d == delete_file_from_db(dbFiles, u, code)
       IN  /\ dbFiles' = d.rows
           /\ ret' = [ call |-> "delete", u |-> u, code |-> code, files |-> dbFiles,
                       deleted |-> d.deleted ]
    /\ delivered' = delivered + 1
    /\ UNCHANGED << CONVERSATION_STATE, CONVERSATION_OBJECT, pc, loc >>
    /\ FilesFrame

\* The codes a row can have: a bare code or the code of a part.
RowCodes == { FileCode(c, idx) : c \in Codes, idx \in 0..(MaxUploads - 1) }

\* generate_random_text(20) returns a string that is the album id of no row.
FreshAlbumIds == { a \in Codes : \A i \in 1..Len(dbFiles) : dbFiles[i].album_id # Some(a) }

InitStore ==
    /\ ConvQuiet
    /\ dbUser = [ u \in Users |-> Some(UserRow(FALSE, FALSE)) ]
    /\ redisUsers = None
    /\ redisAdmins = None
    /\ redisDetail = [ u \in Users |-> None ]
    /\ demoted = {}
    /\ created = {}
    /\ pc = [ u \in Users |-> "idle" ]
    /\ loc = [ u \in Users |-> NoLoc ]
    /\ ret = NoRet
    /\ ChannelsQuiet
    /\ gateRun = NoGateRun

\* Uploads, finishes that succeed or fail partway, retrievals and deletes;
\* the upload sessions come one after the other.
NextStore ==
    \E u \in Users :
        \/ (\A v \in Users : IsNone(uploads[v])) /\ UploadPrompt(u)
        \/ UploadFile(u, 1, TRUE)
        \/ \E code \in Codes, album \in FreshAlbumIds, failAt \in 0..MaxUploads :
               FinishUpload(u, code, album, failAt)
        \/ \E c \in Codes : delivered < MaxStoreEvents /\ FilesGet(u, c)
        \/ FilesSent(u)
        \/ \E code \in RowCodes : delivered < MaxStoreEvents /\ StoreDelete(u, code)

SpecStore == InitStore /\ [][NextStore]_vars

SavedWith(rows, code) == SelectSeq(rows, LAMBDA r : r.code[1] = code[1])
SavedApart(rows, code) == SelectSeq(rows, LAMBDA r : r.code[1] # code[1])

Primaries(a) == { j \in 1..Len(dbFiles) : dbFiles[j].album_id = a /\ Len(dbFiles[j].code) = 1 }

NextCodes ==
    \E u \in Users :
        \/ FilesStart(u)
        \/ \E target \in CodeStates : FilesPrompt(u, target)
        \/ \E t \in RawTexts : FilesCode(u, t)
        \/ \E t \in RawTexts : FilesSetText(u, t)

SpecCodes == InitFiles /\ [][NextCodes]_vars

\* The text of the latest message is the code of no row its sender owned.
NoOwnedMatch ==
    ~\E i \in 1..Len(ret.files) :
        ret.files[i].code = << ret.text >> /\ ret.files[i].owner_id = ret.u

\* C26 as stated: in each state that awaits a file code, every message that
\* is not a valid code or matches no file owned by the sender leaves the
\* sender's state and context and the durable store unchanged and sends a
\* retry prompt.
C26_AnyUnmatchedMessageRetries ==
    (/\ ret.call \in CodeStates \cup { "handle_start", "prompt" }
     /\ ret.state \in CodeStates
     /\ (ret.call \notin CodeStates \/ ret.text \notin Codes \/ NoOwnedMatch)) =>
        /\ ret.sent \in { "retry_invalid", "retry_not_found" }
        /\ FilesUntouched

\* C26, for the messages that are not commands: in each state that awaits a
\* file code, a message that is no command and is not a valid code (empty or
\* longer than 32 characters) or matches no file owned by the sender leaves
\* the sender's state and context and the durable store unchanged and sends
\* a retry prompt.
C26_BadCodeRetries ==
    (ret.call \in CodeStates /\ (ret.text \notin Codes \/ NoOwnedMatch)) =>
        /\ ret.sent = (IF ret.text \notin Codes THEN "retry_invalid" ELSE "retry_not_found")
        /\ FilesUntouched

\* The code of another user's file, sent in the state that awaits the code
\* of a file to delete.
C26_Witness ==
    /\ ret.call = "USER_DELETE_FILE"
    /\ ret.sent = "retry_not_found"
    /\ \E i \in 1..Len(ret.files) : ret.files[i].code = << ret.text >>

\* ------------------------------------------------ the services with the cache off
\* RedisCache.connect(): the instance it leaves behind. With REDIS_ENABLED off it
\* returns before a client exists; a ping that raises clears `enabled` and keeps
\* the client.
connect(enabled, reachable) ==
    IF ~enabled THEN [ enabled |-> FALSE, redis |-> FALSE ]
    ELSE IF reachable THEN CacheOn
    ELSE [ enabled |-> FALSE, redis |-> TRUE ]

\* The guard every cache method starts with: `if not self.enabled or not self.redis`.
usable(c) == c.enabled /\ c.redis

\* A get_* method on the key `key`: the guard returns None; a call that raises
\* (the server does not answer) is caught and returns None.
cache_get(c, up, key) ==
    IF ~usable(c) THEN [ value |-> None, op |-> "skipped" ]
    ELSE IF ~up THEN [ value |-> None, op |-> "caught" ]
    ELSE [ value |-> key, op |-> "done" ]

\* A set_* method or invalidate_channel_cache: whether the key was written.
cache_set(c, up) ==
    IF ~usable(c) THEN [ ok |-> FALSE, op |-> "skipped" ]
    ELSE IF ~up THEN [ ok |-> FALSE, op |-> "caught" ]
    ELSE [ ok |-> TRUE, op |-> "done" ]

\* What a service call leaves in `ret`: its return value, how each cache
\* method it called ended, what the cache writes returned, the tables after it.
ServiceRet(call, result, ops, wrote) ==
    [ call |-> call, result |-> result, ops |-> ops, wrote |-> wrote,
      dbUser |-> dbUser', dbChannels |-> dbChannels' ]

CacheFrame ==
    UNCHANGED << convVars, gateVars, CHANNEL_JOIN_LIST, lookupRaised, pc, loc >>

\* userid_list()
CacheUseridList(up) ==
    LET g == cache_get(cache, up, redisUsers)
        s == cache_set(cache, up)
        hit == ~IsNone(g.value)
    IN  /\ redisUsers' = IF ~hit /\ s.ok THEN Some(DbUserIds) ELSE redisUsers
        /\ UNCHANGED << dbUser, dbChannels, redisAdmins, redisDetail, redisChannels,
                        demoted, created >>
        /\ ret' = ServiceRet("userid_list", IF hit THEN Val(g.value) ELSE DbUserIds,
                             { g.op } \cup (IF hit THEN {} ELSE { s.op }),
                             IF hit THEN {} ELSE { s.ok })
        /\ CacheFrame

\* read_users(is_admin): the userids of the rows returned.
CacheReadUsers(up, is_admin) ==
    LET g == IF is_admin THEN cache_get(cache, up, redisAdmins)
             ELSE [ value |-> None, op |-> "none" ]
        s == cache_set(cache, up)
        hit == ~IsNone(g.value)
        rows == IF hit THEN { u \in DbUserIds : u \in Val(g.value) }
                ELSE IF is_admin THEN DbAdminIds ELSE DbUserIds
        sets == is_admin /\ ~hit
    IN  /\ redisAdmins' = IF sets /\ s.ok THEN Some(DbAdminIds) ELSE redisAdmins
        /\ UNCHANGED << dbUser, dbChannels, redisUsers, redisDetail, redisChannels,
                        demoted, created >>
        /\ ret' = [ ServiceRet("read_users", rows,
                               (IF is_admin THEN { g.op } ELSE {})
                                   \cup (IF sets THEN { s.op } ELSE {}),
                               IF sets THEN { s.ok } ELSE {})
                    EXCEPT !.call = IF is_admin THEN "read_admins" ELSE "read_users" ]
        /\ CacheFrame

\* read_user_from_db(user_id): the row returned, from the cache or the table.
CacheReadUser(up, u) ==
    LET g == cache_get(cache, up, redisDetail[u])
        s == cache_set(cache, up)
        hit == ~IsNone(g.value)
        sets == ~hit /\ ~IsNone(dbUser[u])
    IN  /\ redisDetail' = IF sets /\ s.ok THEN [redisDetail EXCEPT ![u] = dbUser[u]]
                          ELSE redisDetail
        /\ UNCHANGED << dbUser, dbChannels, redisUsers, redisAdmins, redisChannels,
                        demoted, created >>
        /\ ret' = [ u |-> u ] @@
                  ServiceRet("read_user_from_db", IF hit THEN g.value ELSE dbUser[u],
                             { g.op } \cup (IF sets THEN { s.op } ELSE {}),
                             IF sets THEN { s.ok } ELSE {})
        /\ CacheFrame

\* build_channel_join_list(client): titles[c] is how the title lookup of
\* channel c ends.
CacheBuildChannels(up, titles) ==
    LET g == cache_get(cache, up, redisChannels)
        s == cache_set(cache, up)
        hit == ~IsNone(g.value)
        channels == read_channels_from_db
        payload == BuildPayload(channels, [ i \in 1..Len(channels) |-> titles[channels[i]] ], 1)
    IN  /\ redisChannels' = IF ~hit /\ s.ok THEN Some(payload) ELSE redisChannels
        /\ UNCHANGED << dbUser, dbChannels, redisUsers, redisAdmins, redisDetail,
                        demoted, created >>
        /\ ret' = ServiceRet("build_channel_join_list",
                             IF hit THEN Val(g.value) ELSE payload,
                             { g.op } \cup (IF hit THEN {} ELSE { s.op }),
                             IF hit THEN {} ELSE { s.ok })
        /\ CacheFrame

\* create_user_from_db({"userid": u}): get_or_create, then add_user_to_list
\* and set_user_detail for a new row.
CacheCreateUser(up, u) ==
    LET isNew == IsNone(dbUser[u])
        row == IF isNew THEN Some(UserRow(FALSE, FALSE)) ELSE dbUser[u]
        g == cache_get(cache, up, redisUsers)
        s == cache_set(cache, up)
        adds == ~IsNone(g.value) /\ u \notin Val(g.value)
    IN  /\ dbUser' = [dbUser EXCEPT ![u] = row]
        /\ created' = IF isNew THEN created \cup { u } ELSE created
        /\ redisUsers' = IF isNew /\ adds /\ s.ok THEN Some(appended(Val(g.value), u))
                         ELSE redisUsers
        /\ redisDetail' = IF isNew /\ s.ok THEN [redisDetail EXCEPT ![u] = row]
                          ELSE redisDetail
        /\ UNCHANGED << dbChannels, redisAdmins, redisChannels, demoted >>
        /\ ret' = [ u |-> u ] @@
                  ServiceRet("create_user_from_db", row,
                             IF isNew THEN { g.op, s.op } ELSE {},
                             IF isNew THEN { adds /\ s.ok, s.ok } ELSE {})
        /\ CacheFrame

\* change_admin_from_db(u, is_staff=staff): a missing user returns False; else
\* the row is saved, then set_user_detail and set_admin_list.
CacheChangeAdmin(up, u, staff) ==
    LET found == ~IsNone(dbUser[u])
        row == IF found THEN Some([Val(dbUser[u]) EXCEPT !.is_staff = staff]) ELSE None
        s == cache_set(cache, up)
        after == [dbUser EXCEPT ![u] = row]
    IN  /\ dbUser' = after
        /\ demoted' = IF ~found \/ staff THEN demoted \ { u } ELSE demoted \cup { u }
        /\ redisDetail' = IF found /\ s.ok THEN [redisDetail EXCEPT ![u] = row]
                          ELSE redisDetail
        /\ redisAdmins' = IF found /\ s.ok
                          THEN Some({ x \in Users : ~IsNone(after[x]) /\ IsAdminRow(Val(after[x])) })
                          ELSE redisAdmins
        /\ UNCHANGED << dbChannels, redisUsers, redisChannels, created >>
        /\ ret' = [ u |-> u ] @@
                  ServiceRet("change_admin_from_db", found,
                             IF found THEN { s.op } ELSE {},
                             IF found THEN { s.ok } ELSE {})
        /\ CacheFrame

\* create_channel_from_db / delete_channel_from_db: the table changes, then
\* invalidate_channel_cache (after a delete only when a row went).
CacheChangeChannel(up, c) ==
    LET s == cache_set(cache, up)
        deleted == c \in dbChannels
    IN  /\ dbChannels' = IF deleted THEN dbChannels \ { c } ELSE dbChannels \cup { c }
        /\ redisChannels' = IF s.ok THEN invalidated(redisChannels) ELSE redisChannels
        /\ UNCHANGED << dbUser, redisUsers, redisAdmins, redisDetail, demoted, created >>
        /\ ret' = ServiceRet(IF deleted THEN "delete_channel_from_db"
                             ELSE "create_channel_from_db", TRUE, { s.op }, { s.ok })
        /\ CacheFrame

\* The bot after main() ran connect() without getting a cache: disabled by
\* configuration, or the server did not answer. The keys of an earlier run
\* may still sit in Redis, as old as they come.
StaleKeys ==
    /\ redisUsers = Some(Users)
    /\ redisAdmins = Some(Users)
    /\ redisDetail = [ u \in Users |-> Some(UserRow(TRUE, TRUE)) ]
    /\ redisChannels = Some(<< >>)

NoKeys ==
    /\ redisUsers = None
    /\ redisAdmins = None
    /\ redisDetail = [ u \in Users |-> None ]
    /\ redisChannels = None

InitCacheOff ==
    /\ CONVERSATION_STATE = [ u \in Users |-> "None" ]
    /\ CONVERSATION_OBJECT = [ u \in Users |-> None ]
    /\ sessions = [ u \in Users |-> "none" ]
    /\ lastEvent = NoEvent
    /\ delivered = 0
    /\ UploadsQuiet
    /\ cast = NoCast
    /\ cache \in { connect(FALSE, r) : r \in BOOLEAN } \cup { connect(TRUE, FALSE) }
    /\ CleanupQuiet
    /\ dbUser \in [ Users -> { None } \cup { Some(r) : r \in UserRows } ]
    /\ dbChannels \in SUBSET ChannelIds
    /\ StaleKeys \/ NoKeys
    /\ demoted = {}
    /\ created = {}
    /\ CHANNEL_JOIN_LIST = None
    /\ lookupRaised = FALSE
    /\ gateRun = NoGateRun
    /\ ProcsQuiet
    /\ ret = NoRet

NextCacheOff ==
    \E up \in BOOLEAN :
        \/ CacheUseridList(up)
        \/ \E is_admin \in BOOLEAN : CacheReadUsers(up, is_admin)
        \/ \E u \in Users : CacheReadUser(up, u)
        \/ \E titles \in [ ChannelIds -> TitleOutcomes ] : CacheBuildChannels(up, titles)
        \/ \E u \in Users : CacheCreateUser(up, u)
        \/ \E u \in Users, staff \in BOOLEAN : CacheChangeAdmin(up, u, staff)
        \/ \E c \in ChannelIds : CacheChangeChannel(up, c)

SpecCacheOff == InitCacheOff /\ [][NextCacheOff]_vars

\* With the cache off every cache method returns at its guard, so none raises.
CacheOpsSkipped == ret.call # "none" => ret.ops \subseteq { "skipped" }

\* With the cache off every cache write reports failure as its return value.
CacheWritesReportFailure == ret.call # "none" => ret.wrote \subseteq { FALSE }

\* With the cache off the user reads return what the user table holds.
UserReadsFromStore ==
    /\ ret.call = "userid_list" => ret.result = DbUserIds
    /\ ret.call = "read_users" => ret.result = DbUserIds
    /\ ret.call = "read_admins" => ret.result = DbAdminIds
    /\ ret.call = "read_user_from_db" => ret.result = dbUser[ret.u]

\* With the cache off build_channel_join_list returns one entry for each
\* stored channel.
ChannelsFromStore ==
    ret.call = "build_channel_join_list" =>
        /\ EntryIds(ret.result) = dbChannels
        /\ Len(ret.result) = Cardinality(dbChannels)

\* C27: when the cache is disabled or its connection failed at startup, the
\* cached reads (userid_list, read_users, read_user_from_db,
\* build_channel_join_list) return the durable store's current contents, the
\* cache writes and the invalidation report failure as a return value, and no
\* cache operation raises.
C27_CacheOffFallsBackToStore ==
    ~usable(cache) =>
        /\ UserReadsFromStore
        /\ ChannelsFromStore
        /\ CacheWritesReportFailure
        /\ CacheOpsSkipped

\* The parts of C27 that hold: all of it but the channel read.
C27_AllButChannelRead ==
    ~usable(cache) =>
        /\ UserReadsFromStore
        /\ CacheWritesReportFailure
        /\ CacheOpsSkipped

\* ------------------------------------- retrievals while the owner edits the file
\* Users ask for the file, answer its password prompt and are sent it while
\* its owner deletes it or sets and clears its caption and password; a
\* handler runs while another user's send is under way.
NextRace ==
    \E u \in Users :
        \/ \E c \in Codes : FilesGet(u, c)
        \/ \E t \in RawTexts : FilesPassword(u, t)
        \/ FilesSent(u)
        \/ \E target \in CodeStates : FilesPrompt(u, target)
        \/ \E t \in RawTexts : FilesCode(u, t)
        \/ \E t \in RawTexts : FilesSetText(u, t)

SpecRace == InitFiles /\ [][NextRace]_vars

\* C29: after the owner of a file has completed a password change for it or
\* has deleted it, no non-owner receives the file by answering, with the old
\* password, a prompt that was opened before the change. Checked where it
\* matters most: a file that was sent as the answer to a password prompt was,
\* when the answer arrived, still in the table, and if it had a password
\* then, the answer was that password.
C29_OldPasswordOpensNothing ==
    (ret.call = "send_file" /\ ret.via = "password") =>
        /\ ~IsNone(ret.stored)
        /\ Protected(ret.stored) => Val(ret.stored).password = Some(ret.text)

\* The same columns but for the download count.
SameButCount(r1, r2) == [r1 EXCEPT !.count = 0] = [r2 EXCEPT !.count = 0]

\* C30: a delivery changes no column of any file row other than the download
\* count: the table after send_file has saved the counts differs from the
\* table right before that in counts only, whatever the owner wrote while
\* the prompt was pending or the send was under way.
C30_DeliveryWritesCountersOnly ==
    ret.call = "send_file" =>
        /\ Len(dbFiles) = Len(ret.files)
        /\ \A i \in 1..Len(dbFiles) : SameButCount(dbFiles[i], ret.files[i])

\* ------------------------------------------------------- the download counter
\* The row with message id m in the table `rows`, if it is there.
RowOf(rows, m) == first(SelectSeq(rows, LAMBDA r : r.message_id = m))

\* C31: each completed delivery of a file increases its stored download
\* counter by exactly one: the counter of every row that send_file delivered
\* is, after the counts were saved, one more than it was right before, also
\* when deliveries to different users interleave or one of them went through
\* the password prompt.
C31_DeliveryCountsOnce ==
    ret.call = "send_file" =>
        \A i \in 1..Len(ret.items) :
            LET before == RowOf(ret.files, ret.items[i])
                after == RowOf(dbFiles, ret.items[i])
            IN  (~IsNone(before) /\ ~IsNone(after)) => Val(after).count = Val(before).count + 1

\* ------------------------------------------------ the owner of the file in context
\* Every user owns one standalone file, the file with the user's id as its
\* code; each may have a password.
OwnersTables ==
    { [ i \in 1..NumUsers |-> [FileDict(UploadedFile(i, 1), i, i, i, 1, 0) EXCEPT
                                   !.password = pw[i]] ]
      : pw \in [ Users -> { None, Some(1) } ] }

\* The bot with the file table one of `tables`, every user idle and known.
InitWithTables(tables) ==
    /\ CONVERSATION_STATE = [ u \in Users |-> "None" ]
    /\ CONVERSATION_OBJECT = [ u \in Users |-> None ]
    /\ sessions = [ u \in Users |-> "none" ]
    /\ lastEvent = NoEvent
    /\ delivered = 0
    /\ uploads = [ u \in Users |-> None ]
    /\ added = [ u \in Users |-> [ items |-> << >>, dropped |-> 0 ] ]
    /\ dbFiles \in tables
    /\ storage = { dbFiles[i].message_id : i \in 1..Len(dbFiles) }
    /\ forwarded = Len(dbFiles)
    /\ cast = NoCast
    /\ cache = CacheOn
    /\ CleanupQuiet
    /\ dbUser = [ u \in Users |-> Some(UserRow(FALSE, FALSE)) ]
    /\ redisUsers = None
    /\ redisAdmins = None
    /\ redisDetail = [ u \in Users |-> None ]
    /\ demoted = {}
    /\ created = {}
    /\ pc = [ u \in Users |-> "idle" ]
    /\ loc = [ u \in Users |-> NoLoc ]
    /\ ret = NoRet
    /\ ChannelsQuiet
    /\ gateRun = NoGateRun

InitOwners == InitWithTables(OwnersTables)

SpecOwners == InitOwners /\ [][NextRace]_vars

\* The states of the caption and password flows.
FlowStates ==
    TextStates \cup { "USER_SEND_ID_FOR_SET_CAPTION", "USER_SEND_ID_FOR_UNSET_CAPTION",
                      "USER_SEND_ID_FOR_SET_PASSWORD", "USER_SEND_ID_FOR_UNSET_PASSWORD" }

\* C32: the caption and password flows change rows of the sender only: a user
\* who is awaiting the caption text or the password text has in context a
\* file that the user owns, and a run of a handler of these flows leaves
\* every row of another owner as it was.
C32_FlowsWriteOwnRowsOnly ==
    /\ \A u \in Users :
           CONVERSATION_STATE[u] \in TextStates =>
               /\ ~IsNone(CONVERSATION_OBJECT[u])
               /\ Val(CONVERSATION_OBJECT[u]).owner_id = u
    /\ ret.call \in FlowStates =>
           /\ Len(dbFiles) = Len(ret.files)
           /\ \A i \in 1..Len(dbFiles) :
                  dbFiles[i] # ret.files[i] => ret.files[i].owner_id = ret.u

\* A user has set a password on a file of theirs while the table holds a
\* password-protected file of another user that was never delivered.
C32_Witness ==
    /\ ret.call = "USER_SEND_TEXT_FOR_SET_PASSWORD"
    /\ ret.sent = "done"
    /\ dbFiles # ret.files
    /\ \E i \in 1..Len(dbFiles) : dbFiles[i].owner_id # ret.u /\ dbFiles[i].count = 0
                                     /\ Truthy(dbFiles[i].password)

\* ------------------------------------------------- sessions outside the dialog
\* C33: whenever a user's conversation state is not the upload state, the
\* session manager holds no session with items for that user.
C33_NoItemsOutsideUpload ==
    \A u \in Users :
        CONVERSATION_STATE[u] # "USER_UPLOAD_FILE" =>
            (IsNone(uploads[u]) \/ Val(uploads[u]).files = << >>)

\* ------------------------------------------------- the back button and the panels
\* The most messages a behaviour of the back-button specification delivers.
MaxBackEvents == 4

\* A dispatched event on record: its sender and text, the sender's state and
\* context before it, and the users of whom some event so far passed the
\* admin predicate.
Recorded(e) ==
    /\ Dispatched(e, MaxBackEvents)
    /\ ret' = [ call |-> "event", u |-> e.sender, text |-> e.text,
                state |-> CONVERSATION_STATE[e.sender], obj |-> CONVERSATION_OBJECT[e.sender],
                passed |-> (IF ret.call = "event" THEN ret.passed ELSE {})
                               \cup (IF admin_filter(World, e.sender).pass
                                     THEN { e.sender } ELSE {}) ]

\* The labels that lead to the panels and prompts, and the back button.
BackLabels ==
    { "/admin", "forced_join", "add_channel", "remove_channel", "unset_admin",
      "delete_file", "back" }

BackLabelMessage ==
    \E sender \in Users, s \in BackLabels, perm \in Perms :
        Recorded(Event(sender, TRUE, Label(s), perm, None, NoTitles))

\* A decimal user id: the payload of the set-admin and unset-admin states.
BackUserIdMessage ==
    \E sender \in Users, n \in Users, perm \in Perms :
        Recorded(Event(sender, TRUE, Text("userid", "", n), perm, None, NoTitles))

\* "/start get_<code>" for a stored file.
BackStartLinkMessage ==
    \E sender \in Users, perm \in Perms, file \in { Some(f) : f \in FileRows } :
        Recorded(Event(sender, TRUE, Text("startget", "", 0), perm, file, NoTitles))

NextBack ==
    \/ BackLabelMessage
    \/ BackUserIdMessage
    \/ BackStartLinkMessage

SpecBack == Init /\ [][NextBack]_vars

IsBack == ret.call = "event" /\ ret.text = Label("back")

\* C34: the back button, sent by a user who passes the membership gate, moves
\* the user from the add-channel or remove-channel state to the join-channel
\* panel, from any other admin-context state to the admin panel, and from
\* every other state to idle with the context cleared; when the gate does
\* not pass the state is unchanged.
C34_BackButtonTargets ==
    IsBack =>
        LET u == ret.u
        IN  IF ~lastEvent.member THEN CONVERSATION_STATE[u] = ret.state
            ELSE IF ret.state \in { "USER_ADD_CHANNEL", "USER_REMOVE_CHANNEL" }
            THEN CONVERSATION_STATE[u] = "USER_JOIN_CHANNEL_PANEL"
            ELSE IF ret.state \in ADMIN_CONTEXT_STATES
            THEN CONVERSATION_STATE[u] = "USER_ADMIN_PANEL"
            ELSE CONVERSATION_STATE[u] = "None" /\ IsNone(CONVERSATION_OBJECT[u])

\* The back button pressed in the add-channel state by a member.
C34_Witness ==
    /\ IsBack
    /\ lastEvent.member
    /\ ret.state = "USER_ADD_CHANNEL"
    /\ CONVERSATION_STATE[ret.u] = "USER_JOIN_CHANNEL_PANEL"

\* C35: a user's conversation state is one of the admin-context states only
\* if an earlier event from that user passed the admin predicate.
C35_AdminStatesOnlyAfterPassing ==
    \A u \in Users :
        CONVERSATION_STATE[u] \in ADMIN_CONTEXT_STATES =>
            (ret.call = "event" /\ u \in ret.passed)

\* A user who no longer passes the admin predicate is in the admin panel.
C35_Witness ==
    /\ IsBack
    /\ CONVERSATION_STATE[ret.u] = "USER_ADMIN_PANEL"
    /\ ~lastEvent.admin

\* --------------------------------------------------------- albums in the dialog
\* The most messages of an album.
MaxAlbum == 2

\* A message of an album: its size and whether detect_media_payload knows
\* its media (it raises ValueError for a message without media, a web page
\* preview or any media that is neither a photo nor a document).
AlbumMessages == [ size : Sizes, known : BOOLEAN ]
Albums == UNION { [ 1..n -> AlbumMessages ] : n \in 2..MaxAlbum }

\* What client.forward_messages(STORAGE_CHANNEL_ID, event.messages) ends in,
\* as the messages that were forwarded: it returns a list with the forwarded
\* message of each message, None in the place of a message that was not
\* forwarded (one that is gone by then); it raises when none was forwarded.
ForwardResults(n) == [ 1..n -> BOOLEAN ]
forward_raises(fwd) == \A i \in 1..Len(fwd) : ~fwd[i]

\* The validation loop: the 1-based position of the first message for which
\* detect_media_payload raises ValueError, 0 when it raises for none.
first_unsupported(msgs) ==
    LET bad == { i \in 1..Len(msgs) : ~msgs[i].known }
    IN  IF bad = {} THEN 0 ELSE CHOOSE i \in bad : \A j \in bad : i <= j

\* The ids of the forwarded messages, in the places of the list returned.
forwarded_ids(fwd, base) ==
    [ i \in 1..Len(fwd) |->
        IF fwd[i] THEN Some(base + Cardinality({ j \in 1..i : fwd[j] })) ELSE None ]

\* for (...), forwarded_msg in zip(validated_files, forwarded_messages):
\* session.add_file(message_id=forwarded_msg.id, ...). The attribute access
\* on None raises, which leaves the loop for the handler's except clause.
RECURSIVE add_album(_, _, _, _)
add_album(session, msgs, ids, i) ==
    IF i > Len(msgs) THEN [ session |-> session, raised |-> FALSE ]
    ELSE IF IsNone(ids[i]) THEN [ session |-> session, raised |-> TRUE ]
    ELSE add_album(session_add_file(session, << Val(ids[i]), "photo", msgs[i].size,
                                                Val(ids[i]), 0, "ref" >>).session,
                   msgs, ids, i + 1)

\* handle_upload_album
UploadAlbum(u, msgs, fwd) ==
    /\ CONVERSATION_STATE[u] = "USER_UPLOAD_FILE"
    /\ forwarded < MaxUploads
    /\ LET rec == [ call |-> "album", u |-> u, msgs |-> msgs, fwd |-> fwd,
                    before |-> uploads[u], sent |-> "" ]
       IN  IF IsNone(uploads[u])
           THEN /\ ret' = [rec EXCEPT !.sent = "no_session"]
                /\ UNCHANGED << uploads, added, storage, forwarded >>
           ELSE IF first_unsupported(msgs) # 0
           THEN /\ ret' = [rec EXCEPT !.sent = "unsupported"]
                /\ UNCHANGED << uploads, added, storage, forwarded >>
           ELSE IF forward_raises(fwd)
           THEN /\ ret' = [rec EXCEPT !.sent = "error"]
                /\ UNCHANGED << uploads, added, storage, forwarded >>
           ELSE LET ids == forwarded_ids(fwd, forwarded)
                    new == { Val(ids[i]) : i \in { j \in 1..Len(ids) : fwd[j] } }
                    r == add_album(Val(uploads[u]), msgs, ids, 1)
                    n == Len(r.session.files) - Len(Val(uploads[u]).files)
                IN  /\ forwarded' = forwarded + Cardinality(new)
                    /\ storage' = storage \cup new
                    /\ uploads' = [uploads EXCEPT ![u] = Some(r.session)]
                    /\ added' = [added EXCEPT ![u].items =
                                     @ \o SubSeq(r.session.files, Len(r.session.files) - n + 1,
                                                 Len(r.session.files))]
                    /\ ret' = [rec EXCEPT !.sent = IF r.raised THEN "error" ELSE "saved"]
    /\ UNCHANGED << dbFiles, CONVERSATION_STATE >>
    /\ UploadFrame(World)

NextAlbum ==
    \E u \in Users :
        \/ UploadPrompt(u)
        \/ \E msgs \in Albums : \E fwd \in ForwardResults(Len(msgs)) : UploadAlbum(u, msgs, fwd)
        \/ LeaveUpload(u)

SpecAlbum == InitUpload /\ [][NextAlbum]_vars

RECURSIVE SumSizes(_, _)
SumSizes(msgs, i) == IF i > Len(msgs) THEN 0 ELSE msgs[i].size + SumSizes(msgs, i + 1)

\* The album of the latest run had an item that is not supported.
AlbumUnsupported == \E i \in 1..Len(ret.msgs) : ~ret.msgs[i].known

\* The latest run added nothing: the session is what it was.
AlbumAddedNothing == uploads[ret.u] = ret.before

\* The latest run appended one item per message of the album, in the order
\* of the messages, and added their sizes to total_size.
AlbumAddedAll ==
    LET old == Val(ret.before)
        now == Val(uploads[ret.u])
        n == Len(ret.msgs)
    IN  /\ Len(now.files) = Len(old.files) + n
        /\ SubSeq(now.files, 1, Len(old.files)) = old.files
        /\ \A i \in 1..n : now.files[Len(old.files) + i].size = ret.msgs[i].size
        /\ \A i \in 1..(n - 1) : now.files[Len(old.files) + i].message_id
                                     < now.files[Len(old.files) + i + 1].message_id
        /\ now.total_size = old.total_size + SumSizes(ret.msgs, 1)

\* C36: an album received in the upload state that contains an unsupported
\* item, or whose forward to the storage channel fails, adds no item to the
\* session and leaves total_size unchanged; otherwise it appends one item
\* per album message, in the album's message order.
C36_AlbumAllOrNothing ==
    (ret.call = "album" /\ ~IsNone(ret.before)) =>
        IF AlbumUnsupported \/ (\E i \in 1..Len(ret.msgs) : ~ret.fwd[i])
        THEN AlbumAddedNothing
        ELSE AlbumAddedAll

\* C36 for the forwards that fail as a whole or forward every message.
C36_WholeForwards ==
    (ret.call = "album" /\ ~IsNone(ret.before)
        /\ (forward_raises(ret.fwd) \/ \A i \in 1..Len(ret.msgs) : ret.fwd[i])) =>
        IF AlbumUnsupported \/ forward_raises(ret.fwd) THEN AlbumAddedNothing ELSE AlbumAddedAll

\* ------------------------------------------------------ the upload history
\* The tables two finishes leave: some user has an album of two or more
\* items under code 1, and some user has a standalone file under code 2.
HistoryTables ==
    { [ i \in 1..n |-> FileDict(UploadedFile(i, 1), a, 1, 1, n, i - 1) ]
          \o << FileDict(UploadedFile(n + 1, 1), o, 2, 2, 1, 0) >>
      : n \in 2..MaxUploads, a \in Users, o \in Users }

InitHistory == InitWithTables(HistoryTables)

\* The orders a query without order_by may return n rows in.
Orders(n) == { p \in [ 1..n -> 1..n ] : \A i, j \in 1..n : p[i] = p[j] => i = j }

\* read_files_from_db(userid=u): the rows of u, in the order `p` of the database.
read_files_from_db(rows, u, p) ==
    LET mine == SelectSeq(rows, LAMBDA r : r.owner_id = u)
    IN  [ i \in 1..Len(mine) |-> mine[p[i]] ]

\* "_part" in file.code
contains_part(code) == Len(code) > 1 /\ code[2] = "_part"

\* The filter loop of handle_file_history from the i-th row on.
RECURSIVE main_files(_, _, _)
main_files(all_files, i, seen_albums) ==
    IF i > Len(all_files) THEN << >>
    ELSE LET file == all_files[i]
         IN  IF ~IsNone(file.album_id) /\ Val(file.album_id) \in seen_albums
             THEN main_files(all_files, i + 1, seen_albums)
             ELSE (IF ~contains_part(file.code) THEN << file >> ELSE << >>)
                      \o main_files(all_files, i + 1,
                                    IF ~IsNone(file.album_id)
                                    THEN seen_albums \cup { Val(file.album_id) }
                                    ELSE seen_albums)

\* handle_file_history with the membership gate passing: the codes listed.
FileHistory(u, p) ==
    /\ delivered < MaxStoreEvents
    /\ LET all_files == read_files_from_db(dbFiles, u, p)
           listed == main_files(all_files, 1, {})
       IN  ret' = [ call |-> "history", u |-> u, all |-> all_files,
                    listed |-> [ i \in 1..Len(listed) |-> listed[i].code ] ]
    /\ delivered' = delivered + 1
    /\ UNCHANGED << CONVERSATION_STATE, CONVERSATION_OBJECT, dbFiles, pc, loc >>
    /\ FilesFrame

NextHistory ==
    \E u \in Users :
        \E p \in Orders(Cardinality({ i \in 1..Len(dbFiles) : dbFiles[i].owner_id = u })) :
            FileHistory(u, p)

SpecHistory == InitHistory /\ [][NextHistory]_vars

\* The codes the listing of u should show: the code of each row of u that
\* is standalone or the first of its album.
PrimaryCodes(u) ==
    { dbFiles[i].code : i \in { j \in 1..Len(dbFiles) :
                                  dbFiles[j].owner_id = u /\ dbFiles[j].album_order = 0 } }

\* C37: the upload history of a user shows exactly one entry, with the
\* primary code, for each album the user owns and one for each standalone
\* file, whatever order the store returns the rows in.
C37_HistoryListsEveryUpload ==
    ret.call = "history" =>
        /\ Range(ret.listed) = PrimaryCodes(ret.u)
        /\ Len(ret.listed) = Cardinality(PrimaryCodes(ret.u))

\* C37 for the part that holds in every order: no _partN code is listed and
\* no upload is listed twice.
C37_NoPartNoDuplicate ==
    ret.call = "history" =>
        /\ Range(ret.listed) \subseteq PrimaryCodes(ret.u)
        /\ Len(ret.listed) = Cardinality(Range(ret.listed))

\* ------------------------------------------------- the sends of an album
\* The media kinds detect_media_payload stores in File.type, two that
\* send_file groups and two that it does not.
MediaKinds == { "photo", "video", "document", "audio" }

\* file_dict with its type column: the item at index idx of a finish of u.
TypedFileDict(kind, u, code, album, n, idx) ==
    [ code |-> FileCode(code, idx), message_id |-> idx + 1, owner_id |-> u,
      size |-> 1, album_id |-> AlbumId(n, album), album_order |-> idx,
      password |-> None, caption |-> None, count |-> 0, type |-> kind ]

\* The tables one finish of user 1 leaves: an album of two or more items of
\* any kinds, in the order of the session.
TypedTables ==
    UNION { { [ i \in 1..n |-> TypedFileDict(kinds[i], 1, 1, 1, n, i - 1) ]
              : kinds \in [ 1..n -> MediaKinds ] }
            : n \in 2..MaxUploads }

InitSend == InitWithTables(TypedTables)

\* album_file.type == "photo" or album_file.type == "video"
groupable(album_file) == album_file.type \in { "photo", "video" }

\* grouped_pairs of send_file
grouped_pairs(album) == SelectSeq(album, groupable)

\* fallback_pairs of send_file
fallback_pairs(album) == SelectSeq(album, LAMBDA f : ~groupable(f))

\* The messages of the grouped send: the whole group, or, when the grouped
\* call raises, the members whose own send does not raise (`lost` holds the
\* positions of the others).
grouped_result(pairs, group_raises, lost) ==
    IF ~group_raises THEN pairs
    ELSE LET kept == { i \in 1..Len(pairs) : i \notin lost }
             RECURSIVE upto(_)
             upto(i) == IF i = 0 THEN << >>
                        ELSE upto(i - 1) \o (IF i \in kept THEN << pairs[i] >> ELSE << >>)
         IN  upto(Len(pairs))

\* send_file for an album: the grouped photos and videos first, then the
\* other members one by one; the send of the fallback member at position
\* `failAt` raises (0: none does), which ends send_file before any count is
\* saved.
SendAlbum(u, group_raises, lost, failAt) ==
    /\ delivered < MaxStoreEvents
    /\ Len(dbFiles) > 0
    /\ LET file == dbFiles[1]
           album == album_files(dbFiles, file)
           grouped == grouped_pairs(album)
           fallback == fallback_pairs(album)
           raised == failAt \in 1..Len(fallback)
           sent == grouped_result(grouped, group_raises, lost)
                       \o (IF raised THEN SubSeq(fallback, 1, failAt - 1) ELSE fallback)
       IN  /\ lost \subseteq 1..Len(grouped)
           /\ group_raises \/ lost = {}
           /\ Len(grouped) > 0 \/ ~group_raises
           /\ dbFiles' = IF raised THEN dbFiles ELSE count_album(dbFiles, album, 1)
           /\ ret' = [ call |-> "send_album", u |-> u,
                       album |-> [ i \in 1..Len(album) |-> album[i].type ],
                       sent |-> [ i \in 1..Len(sent) |-> sent[i].album_order ],
                       raised |-> raised ]
    /\ delivered' = delivered + 1
    /\ UNCHANGED << CONVERSATION_STATE, CONVERSATION_OBJECT, pc, loc >>
    /\ FilesFrame

NextSend ==
    \E u \in Users, group_raises \in BOOLEAN, lost \in SUBSET (1..MaxUploads),
       failAt \in 0..MaxUploads :
        SendAlbum(u, group_raises, lost, failAt)

SpecSend == InitSend /\ [][NextSend]_vars

\* C38: send_file for an album sends the members in increasing album_order,
\* for every mix of media kinds in the album.
C38_AlbumSentInOrder ==
    ret.call = "send_album" =>
        \A i, j \in 1..Len(ret.sent) : i < j => ret.sent[i] < ret.sent[j]

\* C38 for the albums of which no groupable member comes after another
\* member that is not: the members go out in increasing album_order.
C38_GroupedFirstInOrder ==
    ret.call = "send_album"
        /\ (\A i, j \in 1..Len(ret.album) :
                i < j /\ ret.album[j] \in { "photo", "video" }
                    => ret.album[i] \in { "photo", "video" })
        => \A i, j \in 1..Len(ret.sent) : i < j => ret.sent[i] < ret.sent[j]

\* --------------------------------------------------- the cleanup of previews
InitCleanup == InitWithTables(OwnersTables)

CleanupFrame ==
    UNCHANGED << CONVERSATION_STATE, CONVERSATION_OBJECT, dbFiles, pc, loc, delivered,
                 gateVars, chanVars, userVars, sessions, lastEvent, uploads, added, storage,
                 forwarded, castVars, cacheVars >>

\* The number of times `r` occurs in the list `s`.
Occurrences(s, r) == Cardinality({ i \in 1..Len(s) : s[i] = r })

\* The list without its i-th element.
Without(s, i) == SubSeq(s, 1, i - 1) \o SubSeq(s, i + 1, Len(s))

\* The records that were appended while a cleanup run was under way, as the
\* latest record of an operation remembers them.
Late == IF ret.call \in { "record_previews", "cleanup_messages", "delete_single" }
        THEN ret.late ELSE {}

\* A variant of the start of a cleanup run that copies the list and leaves
\* it as it is, which C39 must tell apart from the code's.
cleanup_start_keeps_list(list) == [ pending |-> list, list |-> list ]

\* pending = LIST_VIDEO.copy(); LIST_VIDEO.clear()
cleanup_start(list) == [ pending |-> list, list |-> << >> ]

\* The end of handle_get_file and of handle_passworded_file after send_file
\* has returned n messages to u: one record is appended per message. The
\* loop has no await, so no other task runs between its appends.
RecordPreviews(u, n) ==
    /\ Len(previews) + n <= MaxPreviews
    /\ LET new == [ i \in 1..n |-> PreviewRecord(u, Len(previews) + i) ]
       IN  /\ LIST_VIDEO' = LIST_VIDEO \o new
           /\ previews' = previews \o new
           /\ ret' = [ call |-> "record_previews", u |-> u, n |-> n,
                       late |-> IF pending # << >> THEN Late \cup Range(new) ELSE Late ]
    /\ UNCHANGED << pending, deleteCalls >>
    /\ CleanupFrame

\* cleanup_messages up to its gather: a run that finds the list empty
\* returns; otherwise the list is copied and cleared in one step, and one
\* delete_single task is started per copied record.
CleanupMessages ==
    /\ LIST_VIDEO # << >>
    /\ LET c == cleanup_start(LIST_VIDEO)
       IN  /\ pending' = pending \o c.pending
           /\ LIST_VIDEO' = c.list
           /\ ret' = [ call |-> "cleanup_messages", n |-> Len(c.pending), late |-> Late ]
    /\ UNCHANGED << previews, deleteCalls >>
    /\ CleanupFrame

\* delete_single(record) of a run under way: the tasks of gather run in any
\* order; the delete call is made, and an exception it raises is logged.
DeleteSingle(i, raises) ==
    /\ i \in 1..Len(pending)
    /\ deleteCalls[pending[i]] < MaxPreviews
    /\ deleteCalls' = [deleteCalls EXCEPT ![pending[i]] = @ + 1]
    /\ pending' = Without(pending, i)
    /\ ret' = [ call |-> "delete_single", record |-> pending[i], raised |-> raises,
                late |-> Late ]
    /\ UNCHANGED << LIST_VIDEO, previews >>
    /\ CleanupFrame

NextCleanup ==
    \/ \E u \in Users, n \in 1..MaxAlbum : RecordPreviews(u, n)
    \/ CleanupMessages
    \/ \E i \in 1..MaxPreviews, raises \in BOOLEAN : DeleteSingle(i, raises)

\* The scheduler starts cleanup_messages every 30 seconds, and the event
\* loop runs every task of a gather.
SpecCleanup ==
    /\ InitCleanup
    /\ [][NextCleanup]_vars
    /\ WF_vars(CleanupMessages)
    /\ WF_vars(\E i \in 1..MaxPreviews, raises \in BOOLEAN : DeleteSingle(i, raises))

\* Every record is a recorded preview that waits in the list, waits in a
\* run under way, or has been passed to one delete call.
EachRecordOnce ==
    \A r \in PreviewRecords :
        Occurrences(LIST_VIDEO, r) + Occurrences(pending, r) + deleteCalls[r]
            = Occurrences(previews, r)

\* C39: every preview recorded for cleanup is passed to a delete call
\* exactly once by the cleanup job, also when it is recorded while a
\* cleanup run is under way: none is lost and none is deleted twice.
C39_EachPreviewDeletedOnce ==
    /\ [](EachRecordOnce /\ \A r \in PreviewRecords : Occurrences(previews, r) <= 1)
    /\ \A r \in PreviewRecords :
           (Occurrences(previews, r) = 1) ~> (deleteCalls[r] = 1)

\* A preview recorded while a run was under way has been deleted, with
\* every other preview, and nothing is left to delete.
C39_Witness ==
    /\ Len(previews) = MaxPreviews
    /\ \A i \in 1..Len(previews) : deleteCalls[previews[i]] = 1
    /\ LIST_VIDEO = << >> /\ pending = << >>
    /\ ret.call = "delete_single" /\ ret.raised
    /\ ret.record \in ret.late

\* ------------------------------------------------ the text of a share code
\* The length of the codes drawn: generate_random_text(15) shortened to the
\* length of "_part".
CodeLength == 5

\* A variant of the alphabet with the underscore of string.punctuation,
\* which C40 must tell apart from the code's.
characters_with_underscore == { "p", "a", "r", "t", "A", "0", "_" }

\* characters = string.ascii_letters + string.digits: the letters of
\* "part", one more letter and one digit stand for the 62 characters.
characters == { "p", "a", "r", "t", "A", "0" }

\* "".join(random.choice(characters) for _ in range(length)): the texts a
\* call may return.
generate_random_text(length) == [ 1..length -> characters ]

PartText == << "_", "p", "a", "r", "t" >>

\* str(idx) of an index below ten
IndexText(idx) == << << "0", "1", "2", "3", "4", "5", "6", "7", "8", "9" >>[idx + 1] >>

\* code if idx == 0 else f"{code}_part{idx}", on the text of the code
code_text(code, idx) == IF idx = 0 THEN code ELSE code \o PartText \o IndexText(idx)

\* sub in text
in_text(sub, text) ==
    \E i \in 1..(Len(text) - Len(sub) + 1) : SubSeq(text, i, i + Len(sub) - 1) = sub

\* The codes handle_finish_upload gives the n items of a session, for the
\* text `code` that generate_random_text has returned; one finish a behaviour.
FinishCodes(u, code, n) ==
    /\ delivered = 0
    /\ delivered' = 1
    /\ ret' = [ call |-> "codes", u |-> u,
                codes |-> [ i \in 1..n |-> code_text(code, i - 1) ] ]
    /\ UNCHANGED << cleanupVars, CONVERSATION_STATE, CONVERSATION_OBJECT, dbFiles, pc, loc >>
    /\ FilesFrame

NextGenerate ==
    /\ delivered = 0
    /\ \E u \in Users, code \in generate_random_text(CodeLength), n \in 1..MaxUploads :
           FinishCodes(u, code, n)

SpecGenerate == InitWithTables({ << >> }) /\ [][NextGenerate]_vars

\* C40: no share code that a finish gives the item at index 0 contains
\* "_part", so the history filter never takes a primary code for the code of
\* an album member; the codes of the other items all contain it.
C40_PrimaryCodeHasNoPart ==
    ret.call = "codes" =>
        /\ ~in_text(PartText, ret.codes[1])
        /\ \A i \in 2..Len(ret.codes) : in_text(PartText, ret.codes[i])

\* An album whose primary code reads "part" after its first character.
C40_Witness ==
    /\ ret.call = "codes"
    /\ Len(ret.codes) > 1
    /\ SubSeq(ret.codes[1], 2, 5) = << "p", "a", "r", "t" >>

====
